---------------------------- MODULE Spec2Model ----------------------------
(***************************************************************************)
(* A model of ticker_classifier: the bulk orchestrator                     *)
(* (MarketClassifier.classify_bulk), the duel resolver (_process_duel),    *)
(* the crypto resolver (CoinGeckoClient), the quote adapter (YahooClient)  *)
(* and the cache store (TickerCache).                                      *)
(*                                                                         *)
(* Encoding of Python values:                                              *)
(*   - a str that the code inspects character by character (an input       *)
(*     symbol before normalisation) is a sequence of one-character         *)
(*     strings; every other str is a TLA+ string;                          *)
(*   - a dict is a function whose DOMAIN is the set of keys present;       *)
(*   - None is <<>> and a value that may be None is boxed: <<v>>;          *)
(*   - amounts of money are in units of MONEY_UNIT dollars.                *)
(***************************************************************************)
EXTENDS Integers, Sequences, FiniteSets, TLC

VARIABLES
    now,            \* the wall clock read by datetime.now()
    store,          \* the tickers table: symbol -> [data, updated_at]
    crypto_map,     \* CoinGeckoClient._crypto_map
    credentials,    \* YahooClient.credentials
    list_requests,  \* number of GETs of CoinGeckoClient.list_url so far
    call,           \* the operation that just ran: its arguments, requests and return value
    seen            \* per symbol, the latest classify_bulk result before `call` and when

vars == <<now, store, crypto_map, credentials, list_requests, call, seen>>

----------------------------------------------------------------------------
(* Python values *)

None == <<>>
Some(v) == <<v>>
Val(b) == b[1]

\* d.get(k, default)
Get(d, k, default) == IF k \in DOMAIN d THEN d[k] ELSE default

EmptyDict == <<>>

Range(s) == {s[i] : i \in 1..Len(s)}

\* every ordering of a finite set, as sequences without repetition
Orderings(S) ==
    {p \in [1..Cardinality(S) -> S] : \A i, j \in 1..Cardinality(S) : i # j => p[i] # p[j]}

----------------------------------------------------------------------------
(* str.upper() and str.strip() on character sequences *)

ascii_lowercase == <<"a","b","c","d","e","f","g","h","i","j","k","l","m",
                     "n","o","p","q","r","s","t","u","v","w","x","y","z">>
ascii_uppercase == <<"A","B","C","D","E","F","G","H","I","J","K","L","M",
                     "N","O","P","Q","R","S","T","U","V","W","X","Y","Z">>
whitespace == {" ", "\t", "\n"}

upper_char(c) ==
    IF \E i \in 1..Len(ascii_lowercase) : ascii_lowercase[i] = c
    THEN ascii_uppercase[CHOOSE i \in 1..Len(ascii_lowercase) : ascii_lowercase[i] = c]
    ELSE c

upper(s) == [i \in 1..Len(s) |-> upper_char(s[i])]

RECURSIVE lstrip(_)
lstrip(s) == IF s # <<>> /\ Head(s) \in whitespace THEN lstrip(Tail(s)) ELSE s

RECURSIVE rstrip(_)
rstrip(s) ==
    IF s # <<>> /\ s[Len(s)] \in whitespace THEN rstrip(SubSeq(s, 1, Len(s) - 1)) ELSE s

strip(s) == rstrip(lstrip(s))

\* the characters of s as one string
RECURSIVE text(_)
text(s) == IF s = <<>> THEN "" ELSE Head(s) \o text(Tail(s))

\* s.upper().strip(), the key used at classifier.py:157 and :178
normalize(s) == text(strip(upper(s)))

----------------------------------------------------------------------------
(* constants.py: the shortcut table and the forex score table *)

SHORTCUTS ==
    "GOLD" :> [category |-> "Commodity", ticker |-> "GOLD", name |-> Some("Gold"),
               yahoo_lookup |-> "GC=F"]

MAJOR_FOREX == {"USD", "EUR", "JPY", "GBP"}
MINOR_FOREX == {"SEK", "NOK"}

\* the duel's fixed scores, in units of 1,000,000 dollars
MAJOR_FOREX_SCORE == 100000000
MINOR_FOREX_SCORE == 50
INDEX_SCORE == 50000
FUTURE_SCORE == 10000

\* MarketClassifier(hours_to_expire=...), in clock ticks
hours_to_expire == 2

----------------------------------------------------------------------------
(* TickerCache *)

\* the keys of a classification dict in the order the duel writes them
KEY_ORDER == <<"category", "ticker", "name", "market_cap", "yahoo_lookup",
               "alternatives", "source">>
\* the keys whose value may be None
NULLABLE == {"name", "market_cap"}

\* json.dumps of a classification dict: the members in key order, None as null
json_dumps(d) ==
    LET keys == SelectSeq(KEY_ORDER, LAMBDA k : k \in DOMAIN d)
    IN [i \in 1..Len(keys) |->
           LET k == keys[i]
           IN IF k \in NULLABLE
              THEN IF d[k] = None THEN <<k, "null">> ELSE <<k, "value", Val(d[k])>>
              ELSE <<k, "value", d[k]>>]

\* json.loads of such a text
json_loads(t) ==
    LET member(k) == t[CHOOSE i \in 1..Len(t) : t[i][1] = k]
    IN [k \in {t[i][1] : i \in 1..Len(t)} |->
           IF k \in NULLABLE
           THEN IF member(k)[2] = "null" THEN None ELSE Some(member(k)[3])
           ELSE member(k)[3]]

\* d[k] = v
Put(d, k, v) == [x \in DOMAIN d \cup {k} |-> IF x = k THEN v ELSE d[x]]

\* {k: v for k, v in d.items() if k != "source"}
strip_source(d) == [k \in DOMAIN d \ {"source"} |-> d[k]]

\* mutant: a row written exactly at the cutoff still counts
fresh_or_equal(updated_at, cutoff) == updated_at >= cutoff

\* WHERE updated_at > ?
fresh(updated_at, cutoff) == updated_at > cutoff

\* TickerCache.get_many(symbols) on table st at clock t
get_many(symbols, st, t) ==
    IF symbols = <<>> THEN EmptyDict
    ELSE LET cutoff == t - hours_to_expire
             rows == {s \in Range(symbols) \cap DOMAIN st : fresh(st[s].updated_at, cutoff)}
         IN [s \in rows |-> Put(json_loads(st[s].data), "source", "cache")]

\* mutant: a row that is returned gets the time of the read
after_select_touch(symbols, st, t) ==
    [s \in DOMAIN st |->
        IF s \in DOMAIN get_many(symbols, st, t) THEN [st[s] EXCEPT !.updated_at = t]
        ELSE st[s]]

\* the table after get_many(symbols): the only statement is a SELECT
after_select(symbols, st, t) == st

\* d.get("category") != "Unknown"
\* mutant: every item is written
storable_all(d) == TRUE

storable(d) == IF "category" \in DOMAIN d THEN d.category # "Unknown" ELSE TRUE

\* mutant: a replaced row keeps the time it was first written
save_many_stale(items, st, t) ==
    IF DOMAIN items = {} THEN st
    ELSE LET written == {s \in DOMAIN items : storable(items[s])}
         IN [s \in DOMAIN st \cup written |->
                IF s \in written
                THEN [data |-> json_dumps(strip_source(items[s])),
                      updated_at |-> IF s \in DOMAIN st THEN st[s].updated_at ELSE t]
                ELSE st[s]]

\* mutant: INSERT OR IGNORE, a symbol that has a row keeps it
save_many_ignore(items, st, t) ==
    IF DOMAIN items = {} THEN st
    ELSE LET written == {s \in DOMAIN items \ DOMAIN st : storable(items[s])}
         IN [s \in DOMAIN st \cup written |->
                IF s \in written
                THEN [data |-> json_dumps(strip_source(items[s])), updated_at |-> t]
                ELSE st[s]]

\* the table after TickerCache.save_many(items) at clock t (INSERT OR REPLACE)
save_many(items, st, t) ==
    IF DOMAIN items = {} THEN st
    ELSE LET written == {s \in DOMAIN items : storable(items[s])}
         IN [s \in DOMAIN st \cup written |->
                IF s \in written
                THEN [data |-> json_dumps(strip_source(items[s])), updated_at |-> t]
                ELSE st[s]]

----------------------------------------------------------------------------
(* MarketClassifier._process_duel *)

SLOTS == <<"stock", "crypto", "forex">>

\* mutant: the two forex weights swapped
forex_score_swapped(sym) ==
    IF sym \in MAJOR_FOREX THEN MINOR_FOREX_SCORE
    ELSE IF sym \in MINOR_FOREX THEN MAJOR_FOREX_SCORE
    ELSE 0

forex_score(sym) ==
    IF sym \in MAJOR_FOREX THEN MAJOR_FOREX_SCORE
    ELSE IF sym \in MINOR_FOREX THEN MINOR_FOREX_SCORE
    ELSE 0

\* info.get("marketCap", 0), boxed: None when the provider sends null
raw_mcap(info) == Get(info, "marketCap", Some(0))

qtype(info) == Get(info, "quoteType", "UNKNOWN")

\* mutant: the raw capitalization, whatever the type
stock_score_raw(info) == raw_mcap(info)

\* the stock score of a quote record, boxed
stock_score(info) ==
    IF qtype(info) = "FUTURE" THEN Some(FUTURE_SCORE)
    ELSE IF qtype(info) = "INDEX" THEN Some(INDEX_SCORE)
    ELSE raw_mcap(info)

\* a or b
py_or(a, b) == IF a = None \/ a = Some("") THEN b ELSE a

\* duel[sym] after steps 1-3: the three scores (stock boxed) and the details
duel_scores(sym, yahoo_data, crypto_data) ==
    [stock  |-> IF sym \in DOMAIN yahoo_data THEN stock_score(yahoo_data[sym]) ELSE Some(0),
     crypto |-> IF sym \in DOMAIN crypto_data
                THEN Get(crypto_data[sym], "market_cap", 0) ELSE 0,
     forex  |-> forex_score(sym)]

duel_details(sym, yahoo_data, crypto_data) ==
    [stock  |-> IF sym \in DOMAIN yahoo_data
                THEN LET info == yahoo_data[sym]
                     IN [type |-> qtype(info),
                         name |-> py_or(Get(info, "shortName", None), Get(info, "longName", None)),
                         market_cap |-> raw_mcap(info)]
                ELSE EmptyDict,
     crypto |-> IF sym \in DOMAIN crypto_data
                THEN [type |-> "Crypto",
                      name |-> Get(crypto_data[sym], "name", None),
                      market_cap |-> Some(Get(crypto_data[sym], "market_cap", 0))]
                ELSE EmptyDict,
     forex  |-> IF sym \in MAJOR_FOREX \cup MINOR_FOREX
                THEN [type |-> "Forex", name |-> Some(sym \o " Currency"), market_cap |-> None]
                ELSE EmptyDict]

\* comparing the scores raises TypeError when the stock score is None
duel_raises(sym, yahoo_data, crypto_data) ==
    duel_scores(sym, yahoo_data, crypto_data).stock = None

\* mutant: a later key also replaces the best one on a tie
exceeds_or_ties(a, b) == a >= b

\* the comparison max() makes: a later key replaces the best one only if greater
exceeds(a, b) == a > b

\* max(keys, key=score): the first key whose score no other key exceeds
RECURSIVE max_by(_, _, _)
max_by(keys, score, best) ==
    IF keys = <<>> THEN best
    ELSE max_by(Tail(keys), score,
                IF exceeds(score[Head(keys)], score[best]) THEN Head(keys) ELSE best)

py_max(keys, score) == max_by(Tail(keys), score, Head(keys))

\* mutant: the symbol itself, whichever slot won
yahoo_lookup_plain(sym, winner) == sym

\* the lookup alias of a winner
yahoo_lookup(sym, winner) ==
    IF winner = "crypto" THEN sym \o "-USD"
    ELSE IF winner = "forex" THEN sym \o "USD=X"
    ELSE sym

\* mutant: the winner's slot name, whichever slot won
category_of_slot(winner, details) == winner

\* the category naming of a winner
category_of(winner, details) ==
    IF winner # "stock" THEN winner ELSE details.type

\* scores[winner] == 0
no_signal(score) == score = 0

\* mutant: the Unknown record built like the others
unknown_result_full(sym) ==
    [category |-> "Unknown", ticker |-> sym, name |-> None, market_cap |-> None,
     yahoo_lookup |-> sym, alternatives |-> <<>>, source |-> "api"]

\* the record of a symbol no signal fired for
unknown_result(sym) == [category |-> "Unknown", ticker |-> sym]

\* mutant: every slot that scored, the winner among them
alternatives_all(scores, winner) == SelectSeq(SLOTS, LAMBDA k : scores[k] > 0)

\* the slots that scored and did not win, in the order of the slots
alternatives_of(scores, winner) == SelectSeq(SLOTS, LAMBDA k : scores[k] > 0 /\ k # winner)

\* step 4 for one symbol whose scores are all numbers
resolve(sym, yahoo_data, crypto_data) ==
    LET boxed   == duel_scores(sym, yahoo_data, crypto_data)
        scores  == [k \in Range(SLOTS) |-> IF k = "stock" THEN Val(boxed.stock) ELSE boxed[k]]
        winner  == py_max(SLOTS, scores)
        details == duel_details(sym, yahoo_data, crypto_data)[winner]
    IN IF no_signal(scores[winner])
       THEN unknown_result(sym)
       ELSE [category     |-> category_of(winner, details),
             ticker       |-> sym,
             name         |-> details.name,
             market_cap   |-> details.market_cap,
             yahoo_lookup |-> yahoo_lookup(sym, winner),
             alternatives |-> alternatives_of(scores, winner),
             source       |-> "api"]

\* _process_duel: [raised, value]; the loop stops at the first symbol that raises
process_duel(to_process, yahoo_data, crypto_data) ==
    IF \E i \in 1..Len(to_process) : duel_raises(to_process[i], yahoo_data, crypto_data)
    THEN [raised |-> TRUE, value |-> EmptyDict]
    ELSE [raised |-> FALSE,
          value  |-> [s \in Range(to_process) |-> resolve(s, yahoo_data, crypto_data)]]

----------------------------------------------------------------------------
(* CoinGeckoClient *)

\* "Top 10 collisions only": the slice bound of _crypto_map[sym][:10]
TOP_COLLISIONS == 10
\* ids per price request
chunk_size == 200

\* cid.title()
title(cid) == "Title(" \o cid \o ")"

\* bool(self._crypto_map): neither None nor an empty dict
map_loaded(cmap) == cmap # None /\ DOMAIN Val(cmap) # {}

\* the defaultdict(list) the loop over the listing builds: under each
\* upper-cased symbol, the ids of its coins in listing order
build_map(data) ==
    LET key(coin) == text(upper(coin.symbol))
        ids(seq)  == [i \in 1..Len(seq) |-> seq[i].id]
    IN [sym \in {key(data[i]) : i \in 1..Len(data)} |->
           ids(SelectSeq(data, LAMBDA coin : key(coin) = sym))]

\* a coin without "symbol" or "id" raises KeyError inside the loop
well_formed_coin(coin) == {"symbol", "id"} \subseteq DOMAIN coin

\* _load_map_sync / _load_map_async: the new _crypto_map and whether list_url was fetched.
\* listing = [ok, data]: the request and resp.json() succeeded, and the coins it lists.
load_map(cmap, listing) ==
    IF map_loaded(cmap) THEN [crypto_map |-> cmap, requested |-> FALSE]
    ELSE IF listing.ok /\ \A i \in 1..Len(listing.data) : well_formed_coin(listing.data[i])
    THEN [crypto_map |-> Some(build_map(listing.data)), requested |-> TRUE]
    ELSE [crypto_map |-> Some(EmptyDict), requested |-> TRUE]

\* lst[:n]
take(lst, n) == SubSeq(lst, 1, IF Len(lst) < n THEN Len(lst) ELSE n)

\* mutant: every id of the symbol, without the slice
candidates_all(sym, cmap) ==
    IF map_loaded(cmap) /\ sym \in DOMAIN Val(cmap) THEN Val(cmap)[sym] ELSE <<>>

\* the candidate ids of one symbol
candidates(sym, cmap) ==
    IF map_loaded(cmap) /\ sym \in DOMAIN Val(cmap)
    THEN take(Val(cmap)[sym], TOP_COLLISIONS)
    ELSE <<>>

\* _get_candidate_ids: (ids, id_to_parent)
RECURSIVE get_candidate_ids(_, _)
get_candidate_ids(symbols, cmap) ==
    IF symbols = <<>> \/ ~map_loaded(cmap) THEN [ids |-> <<>>, id_to_parent |-> EmptyDict]
    ELSE LET n    == Len(symbols)
             init == get_candidate_ids(SubSeq(symbols, 1, n - 1), cmap)
             mine == candidates(symbols[n], cmap)
         IN [ids |-> init.ids \o mine,
             id_to_parent |-> [c \in DOMAIN init.id_to_parent \cup Range(mine) |->
                                  IF c \in Range(mine) THEN symbols[n]
                                  ELSE init.id_to_parent[c]]]

\* one price entry raises: val is not a dict, or its usd_market_cap is null
entry_raises(entry) ==
    entry.val = None \/ Get(Val(entry.val), "usd_market_cap", Some(0)) = None

\* mutant: a tie replaces the stored candidate
better_or_equal(mcap, best) == mcap >= best

\* mcap > results.get(parent, {}).get("market_cap", 0)
better(mcap, best) == mcap > best

\* mutant: a symbol without a result counts as below every capitalization
stored_cap_unset(results, parent) ==
    IF parent \in DOMAIN results THEN Get(results[parent], "market_cap", 0) ELSE -1

\* results.get(parent, {}).get("market_cap", 0)
stored_cap(results, parent) == Get(Get(results, parent, EmptyDict), "market_cap", 0)

\* _process_response: results after the entries of data, in the order data lists them;
\* the loop ends at the first entry that raises, keeping what it has written
RECURSIVE process_response(_, _, _)
process_response(data, id_map, results) ==
    IF data = <<>> THEN results
    ELSE LET entry == Head(data)
             cid   == entry.cid
         IN IF cid \notin DOMAIN id_map
            THEN process_response(Tail(data), id_map, results)
            ELSE IF entry_raises(entry) THEN results
            ELSE LET parent == id_map[cid]
                     mcap   == Val(Get(Val(entry.val), "usd_market_cap", Some(0)))
                     best   == stored_cap(results, parent)
                 IN process_response(
                        Tail(data), id_map,
                        IF better(mcap, best)
                        THEN Put(results, parent,
                                 [market_cap |-> mcap, name |-> Some(title(cid)), id |-> cid])
                        ELSE results)

\* ids[i : i + chunk_size] for i in range(0, len(ids), chunk_size)
chunks(ids) ==
    [c \in 1..((Len(ids) + chunk_size - 1) \div chunk_size) |->
        SubSeq(ids, (c - 1) * chunk_size + 1,
               IF c * chunk_size < Len(ids) THEN c * chunk_size ELSE Len(ids))]

\* mutant: the first failed request ends the loop
RECURSIVE price_loop_abort(_, _, _, _)
price_loop_abort(c, n, prices, id_map) ==
    IF c > n THEN EmptyDict
    ELSE LET results == price_loop_abort(c, n - 1, prices, id_map)
         IN IF prices[n].ok /\ \A k \in c..(n - 1) : prices[k].ok
            THEN process_response(prices[n].data, id_map, results)
            ELSE results

\* the chunk loop; prices[c] = [ok, data] answers the request for chunk c
RECURSIVE price_loop(_, _, _, _)
price_loop(c, n, prices, id_map) ==
    IF c > n THEN EmptyDict
    ELSE LET results == price_loop(c, n - 1, prices, id_map)
         IN IF prices[n].ok THEN process_response(prices[n].data, id_map, results)
            ELSE results

\* get_prices_sync / get_prices_async after the map is loaded:
\* the result map and the chunks requested from price_url
get_prices(symbols, cmap, prices) ==
    LET cand == get_candidate_ids(symbols, cmap)
        req  == chunks(cand.ids)
    IN [results   |-> price_loop(1, Len(req), prices, cand.id_to_parent),
        requested |-> req]

----------------------------------------------------------------------------
(* YahooClient *)

\* mutant: credentials are kept although the cookie or crumb request failed
get_credentials_unchecked(creds, auth_ok) ==
    IF creds # None THEN creds ELSE Some([crumb |-> "crumb"])

\* _get_credentials_sync: auth_ok says the cookie and crumb requests succeed
get_credentials(creds, auth_ok) ==
    IF creds # None THEN creds
    ELSE IF auth_ok THEN Some([crumb |-> "crumb"]) ELSE None

\* the loop over data["quoteResponse"]["result"]; an item without "symbol"
\* raises KeyError, which ends the loop with the items stored so far
RECURSIVE quote_loop(_, _)
quote_loop(items, results) ==
    IF items = <<>> THEN results
    ELSE IF "symbol" \notin DOMAIN Head(items) THEN results
    ELSE quote_loop(Tail(items), Put(results, text(upper(Head(items).symbol)), Head(items)))

\* get_quotes_sync / get_quotes_async: quote = [status, items] answers the
\* QUOTE_URL request ("error": the request or resp.json() raised)
get_quotes(symbols, creds, auth_ok, quote) ==
    LET c == get_credentials(creds, auth_ok)
    IN IF symbols = <<>>
       THEN [results |-> EmptyDict, credentials |-> creds, requested |-> None]
       ELSE IF c = None
       THEN [results |-> EmptyDict, credentials |-> c, requested |-> None]
       ELSE [results     |-> IF quote.status = "200" THEN quote_loop(quote.items, EmptyDict)
                             ELSE EmptyDict,
             credentials |-> IF quote.status = "401" THEN None ELSE c,
             requested   |-> Some(symbols)]

----------------------------------------------------------------------------
(* The environment: what callers pass in and what the providers answer *)

MaxLen == 3      \* longest input list of one classify_bulk call
MaxTime == 3     \* the clock stops ticking here
MaxListRequests == 2  \* listing requests one client may issue

chars(str) ==
    CASE str = "NVDA" -> <<"N","V","D","A">>
      [] str = "BTC"  -> <<"B","T","C">>
      [] str = "GOLD" -> <<"G","O","L","D">>
      [] str = "EUR"  -> <<"E","U","R">>

\* the strings a caller passes: mixed case, padded, empty, whitespace only
INPUTS == {<<"n","v","d","a">>, <<" ","N","v","d","a","\n">>, chars("BTC"),
           <<"g","o","l","d">>, <<" ","\t">>, <<>>}

\* every input list of at most MaxLen strings
InputLists == UNION {[1..n -> INPUTS] : n \in 0..MaxLen}

\* the lists the long-running caller asks for
REQUESTS == {<<chars("BTC")>>, <<chars("GOLD")>>, <<<<"g","o","l","d">>, <<"b","t","c"," ">>>>}

\* quote records the quote provider may hold
QUOTE_NVDA == [symbol |-> chars("NVDA"), quoteType |-> "EQUITY",
               marketCap |-> Some(3000000), shortName |-> Some("NVIDIA Corp")]
QUOTE_BTC  == [symbol |-> <<"b","t","c">>, quoteType |-> "ETF",
               marketCap |-> Some(700), longName |-> Some("Bitcoin Trust")]
QUOTE_NULL == [symbol |-> chars("BTC"), quoteType |-> "EQUITY", marketCap |-> None]

requested_items(items, symbols) ==
    SelectSeq(items, LAMBDA it : text(upper(it.symbol)) \in Range(symbols))

\* the answer of the given kind to one QUOTE_URL request for symbols
QuoteAnswer(kind, symbols) ==
    CASE kind = "quotes" -> [status |-> "200",
                             items |-> requested_items(<<QUOTE_NVDA, QUOTE_BTC>>, symbols)]
      [] kind = "null"   -> [status |-> "200",
                             items |-> requested_items(<<QUOTE_NVDA, QUOTE_NULL>>, symbols)]
      [] kind = "401"    -> [status |-> "401", items |-> <<>>]
      [] OTHER           -> [status |-> "error", items |-> <<>>]

\* the coin listing
LISTING == <<[symbol |-> <<"b","t","c">>, id |-> "bitcoin"],
             [symbol |-> <<"b","t","c">>, id |-> "batcat"],
             [symbol |-> <<"g","o","l","d">>, id |-> "gold-token"]>>

ListingAnswer(ok) == IF ok THEN [ok |-> TRUE, data |-> LISTING] ELSE [ok |-> FALSE, data |-> <<>>]

PRICES == "bitcoin" :> 2000000 @@ "batcat" :> 3 @@ "gold-token" :> 40

\* the answer to one price_url request for a chunk of ids
ChunkAnswer(ok, chunk) ==
    IF ok
    THEN [ok |-> TRUE,
          data |-> [i \in 1..Len(chunk) |->
                       [cid |-> chunk[i],
                        val |-> Some([usd |-> 1, usd_market_cap |-> Some(PRICES[chunk[i]])])]]]
    ELSE [ok |-> FALSE, data |-> <<>>]

\* how the providers behave during one call
WORLDS ==
    {[auth_ok |-> TRUE, quote |-> "quotes", listing_ok |-> TRUE, prices_ok |-> TRUE],
     [auth_ok |-> TRUE, quote |-> "quotes", listing_ok |-> TRUE, prices_ok |-> FALSE],
     [auth_ok |-> TRUE, quote |-> "error",  listing_ok |-> TRUE, prices_ok |-> TRUE],
     [auth_ok |-> TRUE, quote |-> "error",  listing_ok |-> TRUE, prices_ok |-> FALSE],
     [auth_ok |-> TRUE, quote |-> "null",   listing_ok |-> TRUE, prices_ok |-> TRUE]}

\* the same, and the failures that leave a client without credentials or index
ALL_WORLDS ==
    WORLDS \cup
    {[auth_ok |-> TRUE,  quote |-> "401",    listing_ok |-> FALSE, prices_ok |-> TRUE],
     [auth_ok |-> FALSE, quote |-> "quotes", listing_ok |-> FALSE, prices_ok |-> FALSE]}

\* a row as an earlier process left it in the database file
OLD_ROW(sym) ==
    [data |-> json_dumps([category |-> "EQUITY", ticker |-> sym, name |-> Some("Old " \o sym),
                          market_cap |-> None, yahoo_lookup |-> sym, alternatives |-> <<>>]),
     updated_at |-> 0]

InitialStores == {EmptyDict,
                  "GOLD" :> OLD_ROW("GOLD") @@ "NVDA" :> OLD_ROW("NVDA")}

----------------------------------------------------------------------------
(* MarketClassifier.classify_bulk *)

NoCall == [op |-> "none"]

\* the normalized symbols of the non-blank inputs
unique_set(symbols) == {normalize(symbols[i]) : i \in {j \in 1..Len(symbols) : strip(symbols[j]) # <<>>}}

\* mutant: the cache is not consulted
to_process_uncached(unique, cached) ==
    SelectSeq(unique, LAMBDA sym : sym \notin DOMAIN SHORTCUTS)

\* mutant: a shortcut symbol without a cached row joins the remainder
to_process_shortcuts(unique, cached) ==
    SelectSeq(unique, LAMBDA sym : sym \notin DOMAIN cached)

\* the remainder, in the order of unique
to_process_of(unique, cached) ==
    SelectSeq(unique, LAMBDA sym : sym \notin DOMAIN SHORTCUTS /\ sym \notin DOMAIN cached)

\* mutant: the cache is looked up before the shortcut table
partition_cache_first(unique, cached) ==
    [sym \in {x \in Range(unique) : x \in DOMAIN SHORTCUTS \/ x \in DOMAIN cached} |->
        IF sym \in DOMAIN cached THEN cached[sym]
        ELSE Put(SHORTCUTS[sym], "source", "shortcut")]

\* results_map after the partition loop
partition_map(unique, cached) ==
    [sym \in {x \in Range(unique) : x \in DOMAIN SHORTCUTS \/ x \in DOMAIN cached} |->
        IF sym \in DOMAIN SHORTCUTS THEN Put(SHORTCUTS[sym], "source", "shortcut")
        ELSE cached[sym]]

\* results_map.update(processed)
update(d, e) == [k \in DOMAIN d \cup DOMAIN e |-> IF k \in DOMAIN e THEN e[k] ELSE d[k]]

\* mutant: the input string is looked up as it was passed
project_raw(results_map, symbols) ==
    [i \in 1..Len(symbols) |->
        IF text(symbols[i]) \in DOMAIN results_map
        THEN Some(results_map[text(symbols[i])]) ELSE None]

\* [results_map.get(s.upper().strip()) for s in symbols]
project(results_map, symbols) ==
    [i \in 1..Len(symbols) |->
        IF normalize(symbols[i]) \in DOMAIN results_map
        THEN Some(results_map[normalize(symbols[i])]) ELSE None]

\* what `seen` remembers of a finished call: per symbol the classification fields
\* returned and the time its record was written (for Unknown and shortcut
\* results, which have no record, the time of the call)
remember(results_map, st, t) ==
    [sym \in DOMAIN seen \cup DOMAIN results_map |->
        IF sym \in DOMAIN results_map
        THEN [res |-> strip_source(results_map[sym]),
              at  |-> IF /\ Get(results_map[sym], "source", "") \in {"api", "cache"}
                         /\ sym \in DOMAIN st
                      THEN st[sym].updated_at ELSE t]
        ELSE seen[sym]]

\* mutant: the providers are asked about the whole working set
provider_batch_unique(to_process, unique) == unique

\* the list handed to get_quotes and to get_prices
provider_batch(to_process, unique) == to_process

\* the database file during one call: whether sqlite3.connect succeeds in
\* get_many and in save_many
DISK_OK == [read_ok |-> TRUE, write_ok |-> TRUE]
DISKS == [read_ok : BOOLEAN, write_ok : BOOLEAN]

\* cache.get_many(unique) on a database that may be unavailable: an empty
\* list returns before the connection is opened, otherwise sqlite3's error
\* leaves get_many, which has no handler
cache_read(symbols, st, t, ok) ==
    IF symbols = <<>> \/ ok
    THEN [raised |-> FALSE, value |-> get_many(symbols, st, t),
          store |-> after_select(symbols, st, t)]
    ELSE [raised |-> TRUE, value |-> EmptyDict, store |-> st]

\* mutant: a failed write is dropped and the call carries on
cache_write_swallowed(items, st, t, ok) ==
    [raised |-> FALSE, store |-> IF ok THEN save_many(items, st, t) ELSE st]

\* cache.save_many(items) on a database that may be unavailable: empty items
\* return before the connection is opened, otherwise sqlite3's error leaves
\* save_many, which has no handler, and nothing is written
cache_write(items, st, t, ok) ==
    IF items = EmptyDict \/ ok
    THEN [raised |-> FALSE, store |-> save_many(items, st, t)]
    ELSE [raised |-> TRUE, store |-> st]

\* classify_bulk(symbols) as a function of the state it starts in (table st at
\* clock t, credentials creds, index cmap), of the providers' answers and of
\* the database's availability: what it returns, what it asks, and the state it
\* leaves. unique is the order in which the set comprehension at line 157
\* happens to list the normalized symbols
classify_bulk(symbols, unique, st, t, creds, cmap, auth_ok, quote, listing, prices, disk) ==
    LET rd         == cache_read(unique, st, t, disk.read_ok)
        cached     == rd.value
        to_process == to_process_of(unique, cached)
        hits       == partition_map(unique, cached)
        batch      == provider_batch(to_process, unique)
        y          == get_quotes(batch, creds, auth_ok, quote)
        loaded     == load_map(cmap, listing)
        c          == get_prices(batch, loaded.crypto_map, prices)
        duel       == process_duel(to_process, y.results, c.results)
        results_map == update(hits, duel.value)
        wr         == cache_write(duel.value, rd.store, t, disk.write_ok)
        base       == [get_many_symbols |-> unique, cached |-> cached,
                       to_process |-> to_process]
    IN IF rd.raised
       THEN base @@ [outcome |-> "raised", value |-> <<>>, failed_at |-> "get_many",
                     results_map |-> EmptyDict,
                     quote_requested |-> None, quote_symbols |-> None,
                     price_symbols |-> None,
                     price_requested |-> <<>>, list_requested |-> FALSE,
                     store |-> rd.store, credentials |-> creds, crypto_map |-> cmap]
       ELSE IF to_process = <<>>
       THEN base @@ [outcome |-> "returned", value |-> project(hits, symbols),
                     failed_at |-> "none",
                     results_map |-> hits,
                     quote_requested |-> None, quote_symbols |-> None,
                     price_symbols |-> None,
                     price_requested |-> <<>>, list_requested |-> FALSE,
                     store |-> rd.store, credentials |-> creds, crypto_map |-> cmap]
       ELSE IF duel.raised \/ wr.raised
       THEN base @@ [outcome |-> "raised", value |-> <<>>,
                     failed_at |-> IF duel.raised THEN "duel" ELSE "save_many",
                     results_map |-> hits,
                     quote_requested |-> y.requested,
                     quote_symbols |-> Some(batch),
                     price_symbols |-> Some(batch),
                     price_requested |-> c.requested,
                     list_requested |-> loaded.requested,
                     store |-> rd.store, credentials |-> y.credentials,
                     crypto_map |-> loaded.crypto_map]
       ELSE base @@ [outcome |-> "returned",
                     value |-> project(results_map, symbols),
                     failed_at |-> "none",
                     results_map |-> results_map,
                     quote_requested |-> y.requested,
                     quote_symbols |-> Some(batch),
                     price_symbols |-> Some(batch),
                     price_requested |-> c.requested,
                     list_requested |-> loaded.requested,
                     store |-> wr.store,
                     credentials |-> y.credentials,
                     crypto_map |-> loaded.crypto_map]

\* what a call record shows of a finished classify_bulk
observed(r) == [k \in DOMAIN r \ {"store", "credentials", "crypto_map"} |-> r[k]]

\* one classify_bulk(symbols) call, start to return
ClassifyBulk(symbols, unique, auth_ok, quote, listing, prices, disk) ==
    \E r \in {classify_bulk(symbols, unique, store, now, credentials, crypto_map,
                            auth_ok, quote, listing, prices, disk)} :
        /\ call' = [op |-> "classify_bulk", symbols |-> symbols, t |-> now,
                    unique |-> unique, disk |-> disk,
                    answers |-> [auth_ok |-> auth_ok, quote |-> quote,
                                 listing |-> listing, prices |-> prices],
                    start |-> [credentials |-> credentials, crypto_map |-> crypto_map],
                    rows |-> [sym \in Range(unique) \cap DOMAIN store |-> store[sym]],
                    prev |-> [sym \in Range(unique) \cap DOMAIN seen |-> seen[sym]]]
                   @@ observed(r)
        /\ store' = r.store
        /\ credentials' = r.credentials
        /\ crypto_map' = r.crypto_map
        /\ list_requests' = list_requests + (IF r.list_requested THEN 1 ELSE 0)
        /\ list_requests' <= MaxListRequests
        /\ seen' = IF r.outcome = "returned" THEN remember(r.results_map, r.store, now)
                   ELSE seen
        /\ UNCHANGED now

\* a caller classifies one of lists while the providers behave as one of worlds
\* and the database as one of disks
Classify(lists, worlds, disks) ==
    /\ call = NoCall
    /\ \E symbols \in lists :
       \E unique \in Orderings(unique_set(symbols)) :
       \E w \in worlds :
       \E disk \in disks :
           LET to_process == to_process_of(unique, get_many(unique, store, now))
               loaded == load_map(crypto_map, ListingAnswer(w.listing_ok))
               req    == chunks(get_candidate_ids(to_process, loaded.crypto_map).ids)
           IN ClassifyBulk(symbols, unique, w.auth_ok, QuoteAnswer(w.quote, to_process),
                           ListingAnswer(w.listing_ok),
                           [c \in DOMAIN req |-> ChunkAnswer(w.prices_ok, req[c])],
                           disk)

\* the caller takes the returned list
Return ==
    /\ call # NoCall
    /\ call' = NoCall
    /\ UNCHANGED <<now, store, crypto_map, credentials, list_requests, seen>>

\* time passes
Tick ==
    /\ call = NoCall
    /\ now < MaxTime
    /\ now' = now + 1
    /\ UNCHANGED <<store, crypto_map, credentials, list_requests, call, seen>>

Init ==
    /\ now = 0
    /\ store \in InitialStores
    /\ crypto_map = None
    /\ credentials = None
    /\ list_requests = 0
    /\ call = NoCall
    /\ seen = EmptyDict

\* a new classifier on an empty database file
InitEmpty == Init /\ store = EmptyDict

Next == Classify(REQUESTS, ALL_WORLDS, {DISK_OK}) \/ Return \/ Tick

Spec == Init /\ [][Next]_vars

\* one call with any input list
NextBulk == Classify(InputLists, ALL_WORLDS, {DISK_OK})

SpecBulk == Init /\ [][NextBulk]_vars

----------------------------------------------------------------------------
(* _process_duel on its own: every combination of the three signals *)

\* one symbol of each forex class
DUEL_SYMBOLS == {"EUR", "SEK", "NVDA"}

\* market capitalizations around the fixed scores
CAPS == {0, 1, MINOR_FOREX_SCORE, MINOR_FOREX_SCORE + 1, INDEX_SCORE + 1,
         MAJOR_FOREX_SCORE - 1, MAJOR_FOREX_SCORE, MAJOR_FOREX_SCORE + 1}

\* quote records: any type or none, with the capitalization absent, null or a
\* number
QuoteRecords ==
    {[quoteType |-> q, marketCap |-> m, shortName |-> Some("Short")] :
        q \in {"EQUITY", "INDEX", "FUTURE"}, m \in {None} \cup {Some(n) : n \in CAPS}}
    \cup {[quoteType |-> q, longName |-> Some("Long")] : q \in {"EQUITY", "INDEX"}}
    \cup {[marketCap |-> m] : m \in {None, Some(0), Some(1)}}
    \cup {EmptyDict}

\* crypto resolver entries
CryptoRecords ==
    {[market_cap |-> n, name |-> Some(title("coin")), id |-> "coin"] : n \in CAPS \ {0}}

\* the dicts over at most the key sym
DictsOf(sym, values) == {EmptyDict} \cup {sym :> v : v \in values}

Duel ==
    /\ call = NoCall
    /\ \E sym \in DUEL_SYMBOLS :
       \E yahoo_data \in DictsOf(sym, QuoteRecords) :
       \E crypto_data \in DictsOf(sym, CryptoRecords) :
           call' = [op |-> "process_duel", sym |-> sym,
                    yahoo_data |-> yahoo_data, crypto_data |-> crypto_data,
                    scores |-> duel_scores(sym, yahoo_data, crypto_data)]
                   @@ process_duel(<<sym>>, yahoo_data, crypto_data)
    /\ UNCHANGED <<now, store, crypto_map, credentials, list_requests, seen>>

NextDuel == Duel \/ Return

SpecDuel == InitEmpty /\ [][NextDuel]_vars

----------------------------------------------------------------------------
(* Properties of the duel (checked under SpecDuel) *)

\* a duel has just returned
duel_done == call.op = "process_duel" /\ ~call.raised
duel_result == call.value[call.sym]
has_quote == call.sym \in DOMAIN call.yahoo_data
has_coin == call.sym \in DOMAIN call.crypto_data
the_quote == call.yahoo_data[call.sym]

\* the market capitalization the quote provider reports is a number m with P(m)
quote_cap_is(P(_)) ==
    /\ has_quote
    /\ "marketCap" \in DOMAIN the_quote
    /\ the_quote.marketCap # None
    /\ P(Val(the_quote.marketCap))

\* the three scores as section 4.4 of the specification defines them
given_stock ==
    IF ~has_quote THEN 0
    ELSE IF Get(the_quote, "quoteType", "") = "INDEX" THEN INDEX_SCORE
    ELSE IF Get(the_quote, "quoteType", "") = "FUTURE" THEN FUTURE_SCORE
    ELSE IF "marketCap" \in DOMAIN the_quote THEN Val(the_quote.marketCap)
    ELSE 0
given_crypto == IF has_coin THEN call.crypto_data[call.sym].market_cap ELSE 0
given_forex ==
    IF call.sym \in MAJOR_FOREX THEN MAJOR_FOREX_SCORE
    ELSE IF call.sym \in MINOR_FOREX THEN MINOR_FOREX_SCORE
    ELSE 0
given == [stock |-> given_stock, crypto |-> given_crypto, forex |-> given_forex]

\* the slot a non-Unknown result was built from, read off its lookup alias
winning_slot ==
    IF duel_result.yahoo_lookup = call.sym \o "-USD" THEN "crypto"
    ELSE IF duel_result.yahoo_lookup = call.sym \o "USD=X" THEN "forex"
    ELSE "stock"

slot_index(k) == CHOOSE i \in 1..Len(SLOTS) : SLOTS[i] = k

\* C4 as stated: a Major currency is classified forex unless the quote record's
\* market capitalization is strictly greater than 100,000,000,000,000.
C4_AsStated ==
    (duel_done /\ call.sym \in MAJOR_FOREX
        /\ ~quote_cap_is(LAMBDA m : m > MAJOR_FOREX_SCORE))
    => duel_result.category = "forex"

\* C4 amended: a Major currency is classified forex unless the quote record's
\* market capitalization, or the crypto resolver's, is greater than or equal to
\* 100,000,000,000,000.
C4_MajorForexDominance ==
    (duel_done /\ call.sym \in MAJOR_FOREX
        /\ ~quote_cap_is(LAMBDA m : m >= MAJOR_FOREX_SCORE)
        /\ ~(has_coin /\ call.crypto_data[call.sym].market_cap >= MAJOR_FOREX_SCORE))
    => duel_result.category = "forex"

\* a Major currency beats a stock and a coin that are both just below its score
C4_Witness ==
    /\ duel_done /\ call.sym \in MAJOR_FOREX
    /\ quote_cap_is(LAMBDA m : m = MAJOR_FOREX_SCORE - 1)
    /\ the_quote.quoteType = "EQUITY"
    /\ has_coin /\ call.crypto_data[call.sym].market_cap = MAJOR_FOREX_SCORE - 1
    /\ duel_result.category = "forex"

\* C5: when the stock, crypto and forex scores are all zero the result is
\* category Unknown with the ticker and nothing else: no name, no market
\* capitalization, no alias, no alternatives, no provenance.
C5_ZeroScoresUnknown ==
    (duel_done /\ given_stock = 0 /\ given_crypto = 0 /\ given_forex = 0)
    => /\ DOMAIN duel_result = {"category", "ticker"}
       /\ duel_result.category = "Unknown"
       /\ duel_result.ticker = call.sym

\* a quote record is present but reports capitalization 0
C5_Witness ==
    /\ duel_done /\ has_quote /\ quote_cap_is(LAMBDA m : m = 0)
    /\ given_stock = 0 /\ given_crypto = 0 /\ given_forex = 0
    /\ duel_result.category = "Unknown"

\* C6: the winning slot has the greatest score, and every slot before it in the
\* order stock, crypto, forex has a strictly smaller score.
C6_WinnerSelection ==
    (duel_done /\ \E k \in Range(SLOTS) : given[k] > 0)
    => /\ duel_result.category # "Unknown"
       /\ \A k \in Range(SLOTS) :
            /\ given[k] <= given[winning_slot]
            /\ slot_index(k) < slot_index(winning_slot) => given[k] < given[winning_slot]

\* stock and forex tie at the Major score and stock, the first of them, wins
C6_Witness ==
    /\ duel_done /\ call.sym \in MAJOR_FOREX
    /\ given_stock = MAJOR_FOREX_SCORE /\ given_crypto < MAJOR_FOREX_SCORE
    /\ winning_slot = "stock"
    /\ duel_result.category = "EQUITY"

----------------------------------------------------------------------------
(* Properties of classify_bulk (checked under Spec and SpecBulk) *)

bulk_done == call.op = "classify_bulk"
bulk_returned == bulk_done /\ call.outcome = "returned"

\* the normalized symbol each input string stands for, spelled out
normal_form(input) ==
    CASE input \in {<<"n","v","d","a">>, <<" ","N","v","d","a","\n">>, chars("NVDA")} -> "NVDA"
      [] input \in {<<"b","t","c"," ">>, chars("BTC")} -> "BTC"
      [] input \in {<<"g","o","l","d">>, chars("GOLD")} -> "GOLD"
      [] OTHER -> ""

no_repeats(seq) == \A i, j \in 1..Len(seq) : i # j => seq[i] # seq[j]

\* C1: classify_bulk returns one element per input element; element i is the
\* result for the trimmed, upper-cased input i; equal normalized symbols get
\* identical results though each is processed once; a blank input yields None.
C1_OrderPreserved ==
    bulk_returned =>
        /\ Len(call.value) = Len(call.symbols)
        /\ \A i \in 1..Len(call.symbols) :
              IF normal_form(call.symbols[i]) = "" THEN call.value[i] = None
              ELSE /\ call.value[i] # None
                   /\ Val(call.value[i]).ticker = normal_form(call.symbols[i])
        /\ \A i, j \in 1..Len(call.symbols) :
              normal_form(call.symbols[i]) = normal_form(call.symbols[j])
                  => call.value[i] = call.value[j]
        /\ no_repeats(call.unique) /\ no_repeats(call.to_process)
        /\ call.quote_requested # None => no_repeats(Val(call.quote_requested))

\* ["nvda", " \t", " Nvda\n"]: the first and third results are the same live
\* classification and the blank input yields None
C1_Witness ==
    /\ bulk_returned
    /\ call.symbols = <<<<"n","v","d","a">>, <<" ","\t">>, <<" ","N","v","d","a","\n">>>>
    /\ call.to_process = <<"NVDA">>
    /\ call.value[1] = call.value[3] /\ call.value[2] = None
    /\ Val(call.value[1]).category = "EQUITY" /\ Val(call.value[1]).source = "api"

\* the classification fields of a result: everything but the provenance
fields(res) == [k \in DOMAIN res \ {"source"} |-> res[k]]

\* the symbols of this call that an earlier call classified too
classified_before == DOMAIN call.prev \cap DOMAIN call.results_map

\* C2 as stated: a symbol classified again within the freshness window of its
\* earlier classification gets the same classification fields.
C2_AsStated ==
    bulk_returned =>
        \A sym \in classified_before :
            call.t - call.prev[sym].at < hours_to_expire
                => fields(call.results_map[sym]) = call.prev[sym].res

\* C2 amended: a symbol whose earlier classification was not Unknown, and that
\* is classified again while the record that classification wrote or read is
\* still fresh, gets the same classification fields, now with source cache (a
\* shortcut symbol always gets the same fields, with source shortcut).
C2_Idempotent ==
    bulk_returned =>
        \A sym \in classified_before :
            (/\ call.prev[sym].res.category # "Unknown"
             /\ sym \in DOMAIN SHORTCUTS \/ call.t - call.prev[sym].at < hours_to_expire)
            => /\ fields(call.results_map[sym]) = call.prev[sym].res
               /\ call.results_map[sym].source =
                      IF sym \in DOMAIN SHORTCUTS THEN "shortcut" ELSE "cache"

\* BTC was classified live as crypto one tick ago and now comes from the cache
C2_Witness ==
    /\ bulk_returned
    /\ "BTC" \in classified_before
    /\ call.prev["BTC"].res.category = "crypto"
    /\ call.t = call.prev["BTC"].at + 1
    /\ call.results_map["BTC"].source = "cache"
    /\ call.results_map["BTC"].market_cap = Some(2000000)

\* every id asked of the price endpoint in this call
requested_ids == UNION {Range(call.price_requested[c]) : c \in DOMAIN call.price_requested}

\* C3: a shortcut symbol resolves to its fixed record with source shortcut
\* whatever the cache holds and the providers answer; it is not in to_process
\* and no provider is asked about it.
C3_ShortcutWins ==
    bulk_done =>
        \A sym \in Range(call.unique) \cap DOMAIN SHORTCUTS :
            /\ bulk_returned =>
                 /\ fields(call.results_map[sym]) = SHORTCUTS[sym]
                 /\ call.results_map[sym].source = "shortcut"
                 /\ \A i \in 1..Len(call.symbols) :
                        normal_form(call.symbols[i]) = sym
                            => call.value[i] = Some(call.results_map[sym])
            /\ sym \notin Range(call.to_process)
            /\ call.quote_requested # None => sym \notin Range(Val(call.quote_requested))
            /\ call.price_symbols # None => sym \notin Range(Val(call.price_symbols))
            /\ "gold-token" \notin requested_ids

\* GOLD has a fresh row in the cache, is classified together with BTC while both
\* providers answer, and still comes from the shortcut table
C3_Witness ==
    /\ bulk_returned
    /\ "GOLD" \in DOMAIN call.cached
    /\ call.to_process = <<"BTC">>
    /\ call.quote_requested = Some(<<"BTC">>)
    /\ "bitcoin" \in requested_ids
    /\ call.results_map["GOLD"].source = "shortcut"

\* C9 as stated: one client fetches the coin listing at most once, whether or
\* not the load succeeded.
C9_AsStated == list_requests <= 1

----------------------------------------------------------------------------
(* TickerCache on its own: callers save and read while time passes *)

CACHE_SYMBOLS == {"NVDA", "BTC"}

\* what a caller may save for one symbol: a live result, a result read from the
\* cache before, or an Unknown result
CACHE_ITEMS(sym) ==
    {[category |-> "EQUITY", ticker |-> sym, name |-> Some("New " \o sym),
      market_cap |-> Some(9), yahoo_lookup |-> sym, alternatives |-> <<>>, source |-> "api"],
     [category |-> "crypto", ticker |-> sym, name |-> None,
      market_cap |-> Some(5), yahoo_lookup |-> sym \o "-USD", alternatives |-> <<"stock">>,
      source |-> "cache"],
     unknown_result(sym)}

\* the dicts save_many may be given
CACHE_SAVES ==
    UNION {{[sym \in syms |-> pick[sym]] :
                pick \in [syms -> UNION {CACHE_ITEMS(sym) : sym \in syms}]} :
           syms \in SUBSET CACHE_SYMBOLS}

\* the lists get_many may be given
CACHE_READS ==
    {<<>>} \cup {<<a>> : a \in CACHE_SYMBOLS \cup {"GOLD"}}
           \cup {<<a, b>> : a, b \in CACHE_SYMBOLS \cup {"GOLD"}}

\* a caller saves one of saves
SaveItems(saves) ==
    /\ call = NoCall
    /\ \E items \in saves :
          /\ \A sym \in DOMAIN items : items[sym] \in CACHE_ITEMS(sym)
          /\ store' = save_many(items, store, now)
          /\ call' = [op |-> "save_many", items |-> items, t |-> now, before |-> store]
    /\ UNCHANGED <<now, crypto_map, credentials, list_requests, seen>>

GetMany ==
    /\ call = NoCall
    /\ \E symbols \in CACHE_READS :
          /\ call' = [op |-> "get_many", symbols |-> symbols, t |-> now,
                      value |-> get_many(symbols, store, now)]
          /\ store' = after_select(symbols, store, now)
    /\ UNCHANGED <<now, crypto_map, credentials, list_requests, seen>>

SaveMany == SaveItems(CACHE_SAVES)

NextCache == SaveMany \/ GetMany \/ Return \/ Tick

SpecCache == Init /\ [][NextCache]_vars

----------------------------------------------------------------------------
(* Properties of the cache (checked under SpecCache) *)

get_done == call.op = "get_many"

----------------------------------------------------------------------------
(* CoinGeckoClient.get_prices on a new client *)

MaxCollisions == 12   \* most coins sharing one symbol in a listing

\* the decimal digits of a number below 100, as characters
digits(n) == IF n < 10 THEN <<ToString(n)>> ELSE <<ToString(n \div 10), ToString(n % 10)>>

\* n coins listed under one symbol, with ids prefix-1 .. prefix-n
coins(symbol, prefix, n) ==
    [i \in 1..n |-> [symbol |-> symbol, id |-> prefix \o "-" \o ToString(i)]]

\* three coins that share the symbol btc
LISTING_ABC == <<[symbol |-> <<"b","t","c">>, id |-> "a"],
                 [symbol |-> <<"B","t","c">>, id |-> "b"],
                 [symbol |-> <<"b","t","c">>, id |-> "c"]>>

\* symbols f1, f2, ... whose candidates fill all of the first chunk but one place
FILL == chunk_size - 1
FILLERS == (FILL + TOP_COLLISIONS - 1) \div TOP_COLLISIONS
filler_size(k) == IF k * TOP_COLLISIONS <= FILL THEN TOP_COLLISIONS
                  ELSE FILL - (k - 1) * TOP_COLLISIONS
filler_symbol(k) == <<"f">> \o digits(k)

RECURSIVE filler_coins(_)
filler_coins(k) ==
    IF k = 0 THEN <<>>
    ELSE filler_coins(k - 1) \o coins(filler_symbol(k), text(filler_symbol(k)), filler_size(k))

LISTING_WIDE == filler_coins(FILLERS) \o LISTING_ABC

\* the ids whose price answers vary
VARIED == {"a", "b", "c"}

\* what the price endpoint may say about one id: not an object, an object
\* without usd_market_cap, a null capitalization, a number
PRICE_VALUES == {None, Some(EmptyDict), Some([usd_market_cap |-> None]),
                 Some([usd_market_cap |-> Some(0)]),
                 Some([usd_market_cap |-> Some(5)]), Some([usd_market_cap |-> Some(100)])}

\* every response about some of the ids, in every order
Responses(ids) ==
    UNION {UNION {{[i \in 1..Len(order) |-> [cid |-> order[i], val |-> val[order[i]]]] :
                      val \in [some -> PRICE_VALUES]} :
                  order \in Orderings(some)} :
           some \in SUBSET ids}

\* the ids the provider always prices the same way
SETTLED == {"ethereum"} \cup {"doge-" \o ToString(i) : i \in 1..MaxCollisions}

\* the answers to the request for one chunk
ChunkAnswers(chunk) ==
    LET settled == SelectSeq(chunk, LAMBDA cid : cid \in SETTLED)
        rest    == [i \in 1..Len(settled) |->
                       [cid |-> settled[i], val |-> Some([usd_market_cap |-> Some(7)])]]
    IN {[ok |-> FALSE, data |-> <<>>]} \cup
       {[ok |-> TRUE, data |-> d \o rest] : d \in Responses(Range(chunk) \cap VARIED)}

\* the answers to the requests for all chunks
RECURSIVE PriceAnswers(_)
PriceAnswers(req) ==
    IF req = <<>> THEN {<<>>}
    ELSE {<<first>> \o rest : first \in ChunkAnswers(Head(req)), rest \in PriceAnswers(Tail(req))}

\* the symbols asked for and the listing the provider serves
CRYPTO_SCENARIOS ==
    {[symbols |-> <<"BTC">>, listing |-> [ok |-> TRUE, data |-> LISTING_ABC]],
     [symbols |-> <<"BTC">>, listing |-> [ok |-> FALSE, data |-> <<>>]],
     [symbols |-> [k \in 1..FILLERS |-> text(upper(filler_symbol(k)))] \o <<"BTC">>,
      listing |-> [ok |-> TRUE, data |-> LISTING_WIDE]]}
    \cup {[symbols |-> <<"ETH", "DOGE">>,
           listing |-> [ok |-> TRUE,
                        data |-> <<[symbol |-> <<"e","t","h">>, id |-> "ethereum"]>>
                                 \o coins(<<"d","o","g","e">>, "doge", n)]] :
            n \in 0..MaxCollisions}

GetPrices ==
    /\ call = NoCall
    /\ \E sc \in CRYPTO_SCENARIOS :
       \E loaded \in {load_map(crypto_map, sc.listing)} :
       \E cand \in {get_candidate_ids(sc.symbols, loaded.crypto_map)} :
       \E prices \in PriceAnswers(chunks(cand.ids)) :
                LET r == get_prices(sc.symbols, loaded.crypto_map, prices)
                IN /\ crypto_map' = loaded.crypto_map
                   /\ list_requests' = list_requests + (IF loaded.requested THEN 1 ELSE 0)
                   /\ call' = [op |-> "get_prices", symbols |-> sc.symbols,
                               listing |-> sc.listing, prices |-> prices,
                               id_map |-> cand.id_to_parent,
                               requested |-> r.requested, value |-> r.results]
    /\ UNCHANGED <<now, store, credentials, seen>>

NextCrypto == GetPrices

SpecCrypto == InitEmpty /\ [][NextCrypto]_vars

----------------------------------------------------------------------------
(* Properties of the crypto resolver (checked under SpecCrypto) *)

prices_done == call.op = "get_prices"

\* the price entries in the order the responses list them: <<chunk, place>>
places ==
    UNION {{<<c, i>> : i \in 1..Len(call.prices[c].data)} : c \in DOMAIN call.prices}
entry_at(p) == call.prices[p[1]].data[p[2]]
before(p, q) == p[1] < q[1] \/ (p[1] = q[1] /\ p[2] < q[2])

\* an entry the resolver cannot read: not an object, or a null capitalization
unreadable(e) ==
    \/ e.val = None
    \/ "usd_market_cap" \in DOMAIN Val(e.val) /\ Val(e.val).usd_market_cap = None

\* the capitalization a readable entry states (0 when it states none)
stated_cap(e) ==
    IF "usd_market_cap" \in DOMAIN Val(e.val) THEN Val(Val(e.val).usd_market_cap) ELSE 0

\* an entry is read if its response arrived and no entry listed before it in
\* that response is unreadable
read(p) ==
    /\ call.prices[p[1]].ok
    /\ \A i \in 1..p[2] : ~unreadable(call.prices[p[1]].data[i])

\* the entries read for a symbol that state a positive capitalization
hits(sym) ==
    {p \in places : /\ read(p)
                    /\ entry_at(p).cid \in DOMAIN call.id_map
                    /\ call.id_map[entry_at(p).cid] = sym
                    /\ stated_cap(entry_at(p)) > 0}

\* the candidate ids of a symbol in the order they were sent
flat_requested ==
    [i \in 1..(IF Len(call.requested) = 0 THEN 0
               ELSE (Len(call.requested) - 1) * chunk_size
                        + Len(call.requested[Len(call.requested)])) |->
        call.requested[((i - 1) \div chunk_size) + 1][((i - 1) % chunk_size) + 1]]
sent_for(sym) == SelectSeq(flat_requested, LAMBDA cid : call.id_map[cid] = sym)

\* C7 as stated: when every response arrives and is readable, the id kept for a
\* symbol is the candidate with the greatest capitalization, and among several
\* such the first in the symbol's candidate list, whatever the response order.
C7_AsStated ==
    (prices_done /\ \A p \in places : read(p)) =>
        \A sym \in Range(call.symbols) :
            hits(sym) # {} =>
                LET cand == sent_for(sym)
                    cap_of(cid) == IF \E p \in hits(sym) : entry_at(p).cid = cid
                                   THEN stated_cap(entry_at(
                                            CHOOSE p \in hits(sym) : entry_at(p).cid = cid))
                                   ELSE 0
                    top == CHOOSE i \in 1..Len(cand) :
                              /\ \A j \in 1..Len(cand) : cap_of(cand[j]) <= cap_of(cand[i])
                              /\ \A j \in 1..(i - 1) : cap_of(cand[j]) < cap_of(cand[i])
                IN call.value[sym].id = cand[top]

\* C7 amended: the id kept for a symbol is the one with the greatest positive
\* capitalization among the entries read for its candidates, and among several
\* such the one the responses list first (chunk by chunk, each response in its
\* own order); entries of a failed response, and entries from the first
\* unreadable one on in a response, are not read; with no such entry the symbol
\* has no result.
C7_Disambiguation ==
    prices_done =>
        \A sym \in Range(call.symbols) :
            IF hits(sym) = {} THEN sym \notin DOMAIN call.value
            ELSE /\ sym \in DOMAIN call.value
                 /\ \E p \in hits(sym) :
                       /\ \A q \in hits(sym) :
                             /\ stated_cap(entry_at(q)) <= stated_cap(entry_at(p))
                             /\ stated_cap(entry_at(q)) = stated_cap(entry_at(p))
                                   => ~before(q, p)
                       /\ call.value[sym].id = entry_at(p).cid
                       /\ call.value[sym].market_cap = stated_cap(entry_at(p))

\* the candidates a, b, c of BTC are split over two chunks; the second response
\* lists c before b with equal capitalizations above a's, and c is kept
C7_Witness ==
    /\ prices_done
    /\ Len(call.requested) = 2
    /\ sent_for("BTC") = <<"a", "b", "c">>
    /\ call.prices[1].ok /\ call.prices[2].ok
    /\ [i \in 1..Len(call.prices[1].data) |-> call.prices[1].data[i].cid] = <<"a">>
    /\ [i \in 1..Len(call.prices[2].data) |-> call.prices[2].data[i].cid] = <<"c", "b">>
    /\ \A p \in places : read(p)
    /\ stated_cap(call.prices[1].data[1]) = 5
    /\ stated_cap(call.prices[2].data[1]) = 100
    /\ stated_cap(call.prices[2].data[2]) = 100
    /\ call.value["BTC"].id = "c"

\* the ids the listing gives for a symbol, in listing order
listed(sym) ==
    LET mine == SelectSeq(call.listing.data, LAMBDA coin : text(upper(coin.symbol)) = sym)
    IN [i \in 1..Len(mine) |-> mine[i].id]

\* C8: for every requested symbol with C ids in the index, the ids sent to the
\* price endpoint for it are exactly the first min(C, 10) of them in index
\* order; no id beyond the tenth is sent.
C8_FanOutCap ==
    (prices_done /\ call.listing.ok) =>
        \A sym \in Range(call.symbols) :
            LET ids == listed(sym)
                n   == IF Len(ids) < 10 THEN Len(ids) ELSE 10
            IN /\ sent_for(sym) = [i \in 1..n |-> ids[i]]
               /\ \A i \in (n + 1)..Len(ids) : ids[i] \notin Range(flat_requested)
               /\ Len(flat_requested) <= 10 * Len(call.symbols)

\* DOGE has twelve ids in the index: the first ten are sent, the last two not
C8_Witness ==
    /\ prices_done
    /\ call.symbols = <<"ETH", "DOGE">>
    /\ Len(listed("DOGE")) = 12
    /\ Len(sent_for("DOGE")) = 10
    /\ sent_for("DOGE")[10] = "doge-10"
    /\ "doge-11" \notin Range(flat_requested)
    /\ "DOGE" \in DOMAIN call.value

----------------------------------------------------------------------------
(* Classification and direct cache writes on one database file *)

\* what is classified and what is saved directly
STORE_REQUESTS == {<<chars("BTC")>>}
STORE_SAVES == {items \in CACHE_SAVES : DOMAIN items = {"BTC"}}

NextStore ==
    Classify(STORE_REQUESTS, ALL_WORLDS, {DISK_OK}) \/ SaveItems(STORE_SAVES) \/ Return \/ Tick

SpecStore == Init /\ [][NextStore]_vars

\* the dict a row of the table holds
row_dict(sym) == json_loads(store[sym].data)

----------------------------------------------------------------------------
(* MarketClassifier.classify_bulk_async: the call suspends at each await; the
   quote task and the price task started by asyncio.gather advance in any order *)

\* the providers' answers during one call, as the world w gives them for the
\* remainder to_process and an index cmap
answers(w, to_process, cmap) ==
    LET listing == ListingAnswer(w.listing_ok)
        req     == chunks(get_candidate_ids(to_process, load_map(cmap, listing).crypto_map).ids)
    IN [auth_ok |-> w.auth_ok, quote |-> QuoteAnswer(w.quote, to_process),
        listing |-> listing,
        prices  |-> [c \in DOMAIN req |-> ChunkAnswer(w.prices_ok, req[c])]]

\* mutant: the duel waits for the quotes only
quotes_completed(ytask, ctask) == ytask = "done"

\* mutant: the duel starts as soon as one of the two tasks has finished
first_completed(ytask, ctask) == ytask = "done" \/ ctask = "done"

\* await asyncio.gather(task_y, task_c): both tasks have finished
gathered(ytask, ctask) == ytask = "done" /\ ctask = "done"

\* the call starts: unique, the cache read in the executor (whose error the
\* await re-raises), the partition loop
AsyncStart(lists, worlds, disks) ==
    /\ call = NoCall
    /\ list_requests < MaxListRequests \/ map_loaded(crypto_map)
    /\ \E symbols \in lists :
       \E unique \in Orderings(unique_set(symbols)) :
       \E w \in worlds :
       \E disk \in disks :
       \E rd \in {cache_read(unique, store, now, disk.read_ok)} :
       \E cached \in {rd.value} :
       \E to_process \in {to_process_of(unique, cached)} :
         /\ store' = rd.store
         /\ call' = [op |-> "classify_bulk_async", symbols |-> symbols, t |-> now,
                    unique |-> unique, get_many_symbols |-> unique,
                    cached |-> cached, to_process |-> to_process,
                    disk |-> disk,
                    failed_at |-> IF rd.raised THEN "get_many" ELSE "none",
                    answers |-> answers(w, to_process, crypto_map),
                    start |-> [store |-> store, credentials |-> credentials,
                               crypto_map |-> crypto_map],
                    results_map |-> IF rd.raised THEN EmptyDict
                                   ELSE partition_map(unique, cached),
                    quote_symbols |-> IF rd.raised \/ to_process = <<>> THEN None
                                     ELSE Some(provider_batch(to_process, unique)),
                    price_symbols |-> IF rd.raised \/ to_process = <<>> THEN None
                                     ELSE Some(provider_batch(to_process, unique)),
                    pc |-> IF rd.raised \/ to_process = <<>> THEN "done" ELSE "fetch",
                    ytask |-> "credentials", ctask |-> "load",
                    y_res |-> EmptyDict, c_res |-> EmptyDict, trace |-> <<>>,
                    steps |-> <<"get_many">>,
                    outcome |-> IF rd.raised THEN "raised" ELSE "returned",
                    value |-> IF ~rd.raised /\ to_process = <<>>
                              THEN project(partition_map(unique, cached), symbols)
                              ELSE <<>>]
    /\ UNCHANGED <<now, crypto_map, credentials, list_requests, seen>>

\* get_quotes_async advances to its next await
AsyncQuotes ==
    /\ call # NoCall /\ call.op = "classify_bulk_async" /\ call.pc = "fetch"
    /\ \/ /\ call.ytask = "credentials"
          /\ credentials' = get_credentials(credentials, call.answers.auth_ok)
          /\ call' = [call EXCEPT !.ytask = IF credentials' = None THEN "done" ELSE "quote",
                                  !.trace = Append(@, "credentials"),
                                  !.steps = @ \o IF credentials' = None
                                                 THEN <<"credentials", "quotes_done">>
                                                 ELSE <<"credentials">>]
       \/ /\ call.ytask = "quote"
          /\ \E y \in {get_quotes(Val(call.quote_symbols), credentials, call.answers.auth_ok,
                                  call.answers.quote)} :
                /\ credentials' = y.credentials
                /\ call' = [call EXCEPT !.ytask = "done", !.y_res = y.results,
                                        !.trace = Append(@, "quote"),
                                        !.steps = @ \o <<"quote", "quotes_done">>]
    /\ UNCHANGED <<now, store, crypto_map, list_requests, seen>>

\* get_prices_async advances to its next await
AsyncPrices ==
    /\ call # NoCall /\ call.op = "classify_bulk_async" /\ call.pc = "fetch"
    /\ \/ /\ call.ctask = "load"
          /\ \E loaded \in {load_map(crypto_map, call.answers.listing)} :
                /\ crypto_map' = loaded.crypto_map
                /\ list_requests' = list_requests + (IF loaded.requested THEN 1 ELSE 0)
          /\ call' = [call EXCEPT !.ctask = "price", !.trace = Append(@, "load"),
                                  !.steps = Append(@, "load")]
       \/ /\ call.ctask = "price"
          /\ call' = [call EXCEPT !.ctask = "done",
                                  !.c_res = get_prices(Val(call.price_symbols), crypto_map,
                                                       call.answers.prices).results,
                                  !.trace = Append(@, "price"),
                                  !.steps = @ \o <<"price", "prices_done">>]
          /\ UNCHANGED <<crypto_map, list_requests>>
    /\ UNCHANGED <<now, store, credentials, seen>>

\* after the gather: the duel, the cache write in the executor, the projection
AsyncResolve ==
    /\ call # NoCall /\ call.op = "classify_bulk_async" /\ call.pc = "fetch"
    /\ gathered(call.ytask, call.ctask)
    /\ \E duel \in {process_duel(call.to_process, call.y_res, call.c_res)} :
       \E wr \in {cache_write(duel.value, store, now, call.disk.write_ok)} :
          IF duel.raised \/ wr.raised
          THEN /\ call' = [call EXCEPT !.pc = "done", !.outcome = "raised",
                              !.failed_at = IF duel.raised THEN "duel" ELSE "save_many",
                              !.steps = @ \o IF duel.raised THEN <<"duel">>
                                             ELSE <<"duel", "save_many">>]
               /\ UNCHANGED store
          ELSE /\ store' = wr.store
               /\ call' = [call EXCEPT !.pc = "done",
                              !.steps = @ \o <<"duel", "save_many">>,
                              !.results_map = update(@, duel.value),
                              !.value = project(update(call.results_map, duel.value),
                                                call.symbols)]
    /\ UNCHANGED <<now, crypto_map, credentials, list_requests, seen>>

\* the awaiting caller takes the returned list
AsyncReturn ==
    /\ call # NoCall /\ call.op = "classify_bulk_async" /\ call.pc = "done"
    /\ call' = NoCall
    /\ UNCHANGED <<now, store, crypto_map, credentials, list_requests, seen>>

NextAsync ==
    \/ AsyncStart(REQUESTS, ALL_WORLDS, {DISK_OK})
    \/ AsyncQuotes \/ AsyncPrices \/ AsyncResolve \/ AsyncReturn \/ Tick

SpecAsync == Init /\ [][NextAsync]_vars

----------------------------------------------------------------------------
(* Properties of classify_bulk_async (checked under SpecAsync) *)

async_done == call.op = "classify_bulk_async" /\ call.pc = "done"

\* what classify_bulk does from the state the finished async call started in,
\* given the same answers
blocking ==
    classify_bulk(call.symbols, call.unique, call.start.store, call.t,
                  call.start.credentials, call.start.crypto_map,
                  call.answers.auth_ok, call.answers.quote, call.answers.listing,
                  call.answers.prices, DISK_OK)

\* C12: from the same cache contents, index state and provider answers,
\* classify_bulk_async returns what classify_bulk returns (or raises where it
\* raises) and leaves the table in the same state.
C12_SameAsBlocking ==
    async_done =>
        /\ call.outcome = blocking.outcome
        /\ call.value = blocking.value
        /\ store = blocking.store

\* the two tasks ran interleaved, the price task first, and BTC was classified
\* live and written
C12_Witness ==
    /\ async_done
    /\ call.trace = <<"load", "credentials", "price", "quote">>
    /\ call.outcome = "returned"
    /\ call.to_process = <<"BTC">>
    /\ "BTC" \in DOMAIN store /\ "BTC" \notin DOMAIN call.start.store
    /\ call.results_map["BTC"].category = "crypto"
    /\ call.results_map["BTC"].alternatives = <<"stock">>

----------------------------------------------------------------------------
(* Provider failures during classify_bulk (checked under Spec) *)

\* the call needed a provider and that provider failed: the cookie or crumb
\* request, the quote request (an error, or a status other than 200), the
\* listing request, every price request
quote_failed ==
    /\ call.to_process # <<>>
    /\ \/ call.start.credentials = None /\ ~call.answers.auth_ok
       \/ call.answers.quote.status # "200"
listing_failed ==
    /\ call.to_process # <<>>
    /\ ~map_loaded(call.start.crypto_map) /\ ~call.answers.listing.ok
prices_failed ==
    /\ call.price_requested # <<>>
    /\ \A c \in DOMAIN call.price_requested : ~call.answers.prices[c].ok

\* C13: when a provider fails during a call, classify_bulk still returns a list
\* of the input's length, and the failed provider contributes no signal: no
\* live result has a stock category after a quote failure, none has crypto as
\* category or alternative after a listing or price failure. (A record the
\* quote provider does deliver is not a failure of the provider, whatever its
\* fields hold; what the duel makes of it is a property of _process_duel.)
C13_FailuresDegraded ==
    (bulk_done /\ (quote_failed \/ listing_failed \/ prices_failed)) =>
        /\ call.outcome = "returned"
        /\ Len(call.value) = Len(call.symbols)
        /\ \A sym \in Range(call.to_process) :
              LET res == call.results_map[sym]
              IN /\ quote_failed => res.category \in {"crypto", "forex", "Unknown"}
                 /\ (listing_failed \/ prices_failed) =>
                       /\ res.category # "crypto"
                       /\ "crypto" \notin Range(Get(res, "alternatives", <<>>))

\* the quote request fails while the crypto resolver answers: BTC, asked for
\* together with GOLD, is classified from the crypto signal alone
C13_Witness ==
    /\ bulk_returned
    /\ Len(call.symbols) = 2
    /\ call.to_process = <<"BTC">>
    /\ call.answers.quote.status = "error"
    /\ ~listing_failed /\ ~prices_failed
    /\ call.results_map["BTC"].category = "crypto"
    /\ call.results_map["BTC"].alternatives = <<>>

----------------------------------------------------------------------------
(* YahooClient.get_quotes on a new client, and both provider adapters *)

MaxItems == 3   \* most items in one quote response

\* items a quote response may list: two good ones, one without "symbol", one
\* of a type that is no stock type, one without a type
QUOTE_BAD    == [quoteType |-> "EQUITY", marketCap |-> Some(1)]
QUOTE_FX     == [symbol |-> chars("EUR"), quoteType |-> "CURRENCY"]
QUOTE_PLAIN  == [symbol |-> chars("GOLD"), marketCap |-> Some(2)]
QUOTE_ITEMS  == {QUOTE_NVDA, QUOTE_BTC, QUOTE_BAD, QUOTE_FX, QUOTE_PLAIN}

\* responses listing each item at most once
QUOTE_RESPONSES ==
    {[status |-> "401", items |-> <<>>], [status |-> "error", items |-> <<>>]} \cup
    {[status |-> "200", items |-> items] :
        items \in {seq \in UNION {[1..n -> QUOTE_ITEMS] : n \in 0..MaxItems} :
                      no_repeats(seq)}}

GetQuotes ==
    /\ call = NoCall
    /\ \E symbols \in {<<>>, <<"NVDA", "BTC", "EUR", "GOLD">>} :
       \E auth_ok \in BOOLEAN :
       \E quote \in QUOTE_RESPONSES :
       \E r \in {get_quotes(symbols, credentials, auth_ok, quote)} :
          /\ credentials' = r.credentials
          /\ call' = [op |-> "get_quotes", symbols |-> symbols, auth_ok |-> auth_ok,
                      quote |-> quote, requested |-> r.requested, value |-> r.results]
    /\ UNCHANGED <<now, store, crypto_map, list_requests, seen>>

NextProviders == GetQuotes \/ GetPrices

SpecProviders == InitEmpty /\ [][NextProviders]_vars

----------------------------------------------------------------------------
(* Properties of the provider adapters (checked under SpecProviders) *)

quotes_done == call.op = "get_quotes"

\* C14 as stated: in a response that arrived, a malformed item costs only its
\* own symbol: every well-formed item, before or after it, is in the result.
C14_AsStated ==
    /\ (quotes_done /\ call.requested # None /\ call.quote.status = "200") =>
          \A i \in 1..Len(call.quote.items) :
              "symbol" \in DOMAIN call.quote.items[i]
                  => text(upper(call.quote.items[i].symbol)) \in DOMAIN call.value
    /\ prices_done =>
          \A p \in places :
              (/\ call.prices[p[1]].ok
               /\ ~unreadable(entry_at(p))
               /\ entry_at(p).cid \in DOMAIN call.id_map
               /\ stated_cap(entry_at(p)) > 0)
              => call.id_map[entry_at(p).cid] \in DOMAIN call.value

----------------------------------------------------------------------------
(* The life of a cache record across classify_bulk calls (checked under Spec) *)

\* the symbols of this call that had a classification record when it started
\* (a shortcut symbol has none: its result never comes from the table)
recorded == (Range(call.unique) \cap DOMAIN call.rows) \ DOMAIN SHORTCUTS

\* the record was written less than one window before the call
still_fresh(sym) == call.t - hours_to_expire < call.rows[sym].updated_at

\* served from the cache: the recorded fields with source cache, no provider
\* asked about the symbol, the row untouched
served_from_cache(sym) ==
    /\ sym \notin Range(call.to_process)
    /\ call.quote_requested # None => sym \notin Range(Val(call.quote_requested))
    /\ call.price_symbols # None => sym \notin Range(Val(call.price_symbols))
    /\ store[sym] = call.rows[sym]
    /\ bulk_returned =>
          /\ call.results_map[sym].source = "cache"
          /\ fields(call.results_map[sym]) = json_loads(call.rows[sym].data)

\* C15 as stated: while its record is fresh a symbol is served from the cache;
\* once the record has expired the symbol is classified live again and its row
\* is overwritten with a new timestamp.
C15_AsStated ==
    bulk_done =>
        \A sym \in recorded :
            IF still_fresh(sym) THEN served_from_cache(sym)
            ELSE /\ sym \in Range(call.to_process)
                 /\ store[sym].updated_at = call.t

\* C15 amended: while its record is fresh a symbol is served from the cache;
\* once the record has expired the symbol is classified live again, and its row
\* is overwritten with the new result and a new timestamp exactly when the call
\* returns a result other than Unknown for it; otherwise the expired row stays
\* as it was.
C15_RecordLife ==
    bulk_done =>
        \A sym \in recorded :
            IF still_fresh(sym) THEN served_from_cache(sym)
            ELSE /\ sym \in Range(call.to_process)
                 /\ IF bulk_returned /\ call.results_map[sym].category # "Unknown"
                    THEN /\ store[sym].updated_at = call.t
                         /\ json_loads(store[sym].data) = fields(call.results_map[sym])
                         /\ call.results_map[sym].source = "api"
                    ELSE store[sym] = call.rows[sym]

\* BTC's record, written by a classification at time 0, has expired at time 2:
\* BTC is classified live again and the row gets the new timestamp
C15_Witness ==
    /\ bulk_returned
    /\ "BTC" \in recorded
    /\ call.rows["BTC"].updated_at = 0 /\ call.t = hours_to_expire
    /\ call.to_process = <<"BTC">>
    /\ call.results_map["BTC"].source = "api"
    /\ store["BTC"].updated_at = call.t

----------------------------------------------------------------------------
(* Cache maintenance: TickerCache defines __init__, _init_db, get_many and
   save_many only, so a call of prune finds no such attribute *)

\* cache.prune(window) at clock t on table st: AttributeError, nothing deleted
prune(window, st, t) == [raised |-> TRUE, deleted |-> None, store |-> st]

Prune ==
    /\ call = NoCall
    /\ \E window \in 0..hours_to_expire :
       \E r \in {prune(window, store, now)} :
          /\ store' = r.store
          /\ call' = [op |-> "prune", window |-> window, t |-> now, before |-> store,
                      raised |-> r.raised, deleted |-> r.deleted]
    /\ UNCHANGED <<now, crypto_map, credentials, list_requests, seen>>

NextMaintenance == SaveMany \/ GetMany \/ Prune \/ Return \/ Tick

SpecMaintenance == Init /\ [][NextMaintenance]_vars

\* C16 as stated: prune(window) deletes every row older than the cutoff and
\* returns the number deleted, so that no such row is left for get_many.
C16_AsStated ==
    call.op = "prune" =>
        /\ ~call.raised
        /\ \A sym \in DOMAIN store : store[sym].updated_at >= call.t - call.window
        /\ call.deleted =
              Some(Cardinality({sym \in DOMAIN call.before :
                                   call.before[sym].updated_at < call.t - call.window}))

----------------------------------------------------------------------------
(* Classification on a database that may be unavailable *)

STORAGE_REQUESTS == {<<>>, <<chars("BTC")>>, <<chars("GOLD")>>}

\* the providers answer in full, or the quote provider delivers a null cap
STORAGE_WORLDS == {w \in WORLDS : w.prices_ok /\ w.quote # "error"}

\* the caller of classify_bulk takes the returned list or the error
BulkReturn == call.op = "classify_bulk" /\ Return

NextStorage ==
    \/ Classify(STORAGE_REQUESTS, STORAGE_WORLDS, DISKS) \/ BulkReturn
    \/ AsyncStart(STORAGE_REQUESTS, STORAGE_WORLDS, DISKS)
    \/ AsyncQuotes \/ AsyncPrices \/ AsyncResolve \/ AsyncReturn
    \/ Tick

SpecStorage == Init /\ [][NextStorage]_vars

classify_done == bulk_done \/ async_done

\* the symbols the finished call had to send to the providers, read off the
\* table as it was when the call started
uncached_at_start ==
    LET rows == IF bulk_done THEN call.rows ELSE call.start.store
    IN {sym \in Range(call.unique) \ DOMAIN SHORTCUTS :
          sym \notin DOMAIN rows \/ rows[sym].updated_at <= call.t - hours_to_expire}

\* the call opened the database for reading and could not
read_failed == call.unique # <<>> /\ ~call.disk.read_ok

\* the call read the cache, reached the write and could not open the database
write_failed ==
    /\ ~read_failed
    /\ uncached_at_start # {}
    /\ ~call.disk.write_ok

\* C17: when the database fails during the cache read or during the cache
\* write of classify_bulk or classify_bulk_async, the call ends with an error
\* and hands no result list to its caller.
C17_StorageFailurePropagates ==
    classify_done /\ (read_failed \/ write_failed) =>
        call.outcome = "raised" /\ call.value = <<>>

\* the write failed after the duel had classified BTC from the providers'
\* answers: the call raised, and BTC is not in the table
C17_Witness ==
    /\ async_done
    /\ call.failed_at = "save_many"
    /\ write_failed
    /\ call.y_res # EmptyDict
    /\ "BTC" \notin DOMAIN store

----------------------------------------------------------------------------
(* Two calls on one CoinGeckoClient before the index is loaded. In "threads"
   mode two threads run get_prices_sync, and a thread may be descheduled
   between any two statements of _load_map_sync; in "tasks" mode two tasks
   of one event loop run get_prices_async, and a task yields only at an
   await. self._crypto_map is read anew by every statement that names it. *)

Callers == {1, 2}

LOAD_SYMBOLS == <<"BTC">>

\* self._crypto_map[coin["symbol"].upper()].append(coin["id"]) on the index
\* cmap (a defaultdict: a missing key starts as an empty list)
append_coin(cmap, coin) ==
    LET key == text(upper(coin.symbol))
    IN Put(cmap, key, Append(Get(cmap, key, <<>>), coin.id))

\* both callers are about to enter _load_map_sync / _load_map_async
LoadStart ==
    /\ call = NoCall
    /\ ~map_loaded(crypto_map)
    /\ list_requests = 0
    /\ \E mode \in {"threads", "tasks"} :
          call' = [op |-> "load_map", mode |-> mode, symbols |-> LOAD_SYMBOLS,
                   pc |-> [p \in Callers |-> "check"],
                   data |-> [p \in Callers |-> <<>>],
                   i |-> [p \in Callers |-> 1],
                   from |-> [p \in Callers |-> None],
                   ids |-> [p \in Callers |-> <<>>],
                   plain |-> FALSE, failed |-> FALSE]
    /\ UNCHANGED <<now, store, crypto_map, credentials, list_requests, seen>>

\* ids, id_map = self._get_candidate_ids(symbols), and the index it read
selected(p, cmap) ==
    [call EXCEPT !.pc[p] = "done", !.from[p] = Some(cmap),
                 !.ids[p] = get_candidate_ids(call.symbols, cmap).ids]

\* thread p: if self._crypto_map: return
ThreadCheck(p) ==
    /\ call.op = "load_map" /\ call.mode = "threads" /\ call.pc[p] = "check"
    /\ call' = [call EXCEPT !.pc[p] = IF map_loaded(crypto_map) THEN "select" ELSE "request"]
    /\ UNCHANGED <<now, store, crypto_map, credentials, list_requests, seen>>

\* thread p: the request and resp.json(), then self._crypto_map =
\* defaultdict(list); or the handler's self._crypto_map = {}
ThreadRequest(p) ==
    /\ call.op = "load_map" /\ call.mode = "threads" /\ call.pc[p] = "request"
    /\ list_requests < MaxListRequests
    /\ list_requests' = list_requests + 1
    /\ \E ok \in BOOLEAN :
          /\ crypto_map' = Some(EmptyDict)
          /\ call' = IF ok
                     THEN [call EXCEPT !.pc[p] = "fill", !.data[p] = LISTING, !.i[p] = 1,
                                       !.plain = FALSE]
                     ELSE [call EXCEPT !.pc[p] = "select", !.plain = TRUE, !.failed = TRUE]
    /\ UNCHANGED <<now, store, credentials, seen>>

\* thread p: one iteration of the loop over data; on a plain dict left by
\* another thread's handler the subscript raises KeyError and p's handler runs
ThreadFill(p) ==
    /\ call.op = "load_map" /\ call.mode = "threads" /\ call.pc[p] = "fill"
    /\ LET coin == call.data[p][call.i[p]]
           last == call.i[p] = Len(call.data[p])
       IN IF call.plain /\ text(upper(coin.symbol)) \notin DOMAIN Val(crypto_map)
          THEN /\ crypto_map' = Some(EmptyDict)
               /\ call' = [call EXCEPT !.pc[p] = "select", !.plain = TRUE]
          ELSE /\ crypto_map' = Some(append_coin(Val(crypto_map), coin))
               /\ call' = [call EXCEPT !.i[p] = @ + 1,
                                       !.pc[p] = IF last THEN "select" ELSE "fill"]
    /\ UNCHANGED <<now, store, credentials, list_requests, seen>>

\* thread p: _get_candidate_ids on the index as it is now
ThreadSelect(p) ==
    /\ call.op = "load_map" /\ call.mode = "threads" /\ call.pc[p] = "select"
    /\ call' = selected(p, crypto_map)
    /\ UNCHANGED <<now, store, crypto_map, credentials, list_requests, seen>>

\* task p up to its first await: the index is there and the candidates are
\* selected, or the request is sent
TaskCheck(p) ==
    /\ call.op = "load_map" /\ call.mode = "tasks" /\ call.pc[p] = "check"
    /\ call' = IF map_loaded(crypto_map) THEN selected(p, crypto_map)
               ELSE [call EXCEPT !.pc[p] = "request"]
    /\ UNCHANGED <<now, store, crypto_map, credentials, list_requests, seen>>

\* task p resumes with the answer: the whole loop and the selection run
\* without an await in between
TaskBuild(p) ==
    /\ call.op = "load_map" /\ call.mode = "tasks" /\ call.pc[p] = "request"
    /\ list_requests < MaxListRequests
    /\ list_requests' = list_requests + 1
    /\ \E ok \in BOOLEAN :
       \E loaded \in {load_map(None, ListingAnswer(ok))} :
          /\ crypto_map' = loaded.crypto_map
          /\ call' = [selected(p, loaded.crypto_map) EXCEPT
                          !.plain = ~ok, !.failed = call.failed \/ ~ok]
    /\ UNCHANGED <<now, store, credentials, seen>>

\* both calls have their candidates
LoadReturn ==
    /\ call.op = "load_map"
    /\ \A p \in Callers : call.pc[p] = "done"
    /\ call' = NoCall
    /\ UNCHANGED <<now, store, crypto_map, credentials, list_requests, seen>>

NextLoad ==
    \/ LoadStart \/ LoadReturn
    \/ \E p \in Callers : ThreadCheck(p) \/ ThreadRequest(p) \/ ThreadFill(p) \/ ThreadSelect(p)
    \/ \E p \in Callers : TaskCheck(p) \/ TaskBuild(p)

SpecLoad == InitEmpty /\ [][NextLoad]_vars

\* the index one successful load builds
full_index == build_map(LISTING)

same_index(a, b) == DOMAIN a = DOMAIN b /\ \A k \in DOMAIN a : a[k] = b[k]

\* the index the caller selected its candidates from had some of the coins
\* but not all of them
partial_index(p) ==
    /\ call.from[p] # None
    /\ map_loaded(Val(call.from[p]))
    /\ ~same_index(Val(Val(call.from[p])), full_index)

loads_finished == call.op = "load_map" /\ \A p \in Callers : call.pc[p] = "done"

\* C18 as stated: when two calls race for the first load and every listing
\* request succeeds, no call selects candidates from a partially built index,
\* and the index left behind is the one a single load builds.
C18_AsStated ==
    call.op = "load_map" /\ ~call.failed =>
        /\ \A p \in Callers : ~partial_index(p)
        /\ loads_finished => same_index(Val(crypto_map), full_index)

\* the same claim for two tasks of one event loop only
C18_TasksOnly == call.op = "load_map" /\ call.mode = "tasks" => C18_AsStated

----------------------------------------------------------------------------
(* Blocking and awaited calls on one classifier, one after the other *)

NextCalls ==
    \/ Classify(REQUESTS, STORAGE_WORLDS, {DISK_OK}) \/ BulkReturn
    \/ AsyncStart(REQUESTS, STORAGE_WORLDS, {DISK_OK})
    \/ AsyncQuotes \/ AsyncPrices \/ AsyncResolve \/ AsyncReturn
    \/ Tick

SpecCalls == Init /\ [][NextCalls]_vars

\* C19: classify_bulk and classify_bulk_async never hand a shortcut symbol to
\* the providers, the duel or save_many, so a row of a shortcut symbol in the
\* table is one that was there before the first call, unchanged.
C19_NoShortcutRow ==
    /\ \A sym \in DOMAIN SHORTCUTS \cap DOMAIN store : store[sym] = OLD_ROW(sym)
    /\ call.op \in {"classify_bulk", "classify_bulk_async"} =>
          Range(call.to_process) \cap DOMAIN SHORTCUTS = {}

\* gold and btc were classified together on an empty table: BTC was written,
\* GOLD was answered from the shortcut table and has no row
C19_Witness ==
    /\ async_done
    /\ Len(call.symbols) = 2
    /\ Get(call.results_map, "GOLD", EmptyDict) = Put(SHORTCUTS["GOLD"], "source", "shortcut")
    /\ "BTC" \in DOMAIN store
    /\ "GOLD" \notin DOMAIN store

----------------------------------------------------------------------------
(* Category naming (checked under SpecDuel) *)

\* the slot with the greatest given score, the earlier slot on a tie
stock_wins  == given_stock > 0 /\ given_stock >= given_crypto /\ given_stock >= given_forex
crypto_wins == given_crypto > given_stock /\ given_crypto >= given_forex
forex_wins  == given_forex > given_stock /\ given_forex > given_crypto

\* C20: when the stock slot wins, the category is the quoteType of the symbol's
\* quote record ("UNKNOWN" when the record has none) and never "stock"; when
\* the crypto or the forex slot wins, the category is "crypto" or "forex".
C20_CategoryNaming ==
    duel_done =>
        /\ stock_wins =>
              /\ duel_result.category # "stock"
              /\ duel_result.category =
                    IF "quoteType" \in DOMAIN the_quote THEN the_quote.quoteType ELSE "UNKNOWN"
        /\ crypto_wins => duel_result.category = "crypto"
        /\ forex_wins => duel_result.category = "forex"

\* a future with a capitalization of 1 wins by its fixed score against a
\* coin and is named FUTURE
C20_Witness ==
    /\ duel_done
    /\ stock_wins
    /\ has_coin
    /\ given_crypto > 1
    /\ the_quote = [quoteType |-> "FUTURE", marketCap |-> Some(1), shortName |-> Some("Short")]
    /\ duel_result.category = "FUTURE"
    /\ duel_result.alternatives = <<"crypto">>

----------------------------------------------------------------------------
(* Lookup alias and alternatives (checked under SpecDuel) *)

\* C21: the lookup alias of a non-Unknown result follows from the winning slot
\* alone: the symbol when stock wins, the symbol and -USD when crypto wins, the
\* symbol and USD=X when forex wins; and one of the three slots has won.
C21_AliasByWinner ==
    duel_done /\ duel_result.category # "Unknown" =>
        /\ stock_wins \/ crypto_wins \/ forex_wins
        /\ stock_wins => duel_result.yahoo_lookup = call.sym
        /\ crypto_wins => duel_result.yahoo_lookup = call.sym \o "-USD"
        /\ forex_wins => duel_result.yahoo_lookup = call.sym \o "USD=X"

\* EUR has a quote record and a coin, and wins as a currency
C21_Witness ==
    /\ duel_done
    /\ call.sym = "EUR"
    /\ has_quote /\ given_stock > 0
    /\ has_coin /\ given_crypto > 0
    /\ forex_wins
    /\ duel_result.yahoo_lookup = "EURUSD=X"

\* the slot the given scores make the winner
the_winner == IF stock_wins THEN "stock" ELSE IF crypto_wins THEN "crypto" ELSE "forex"

\* C22: the alternatives of a non-Unknown result are exactly the slots other
\* than the winner whose score is not zero, in the order stock, crypto, forex.
C22_Alternatives ==
    duel_done /\ duel_result.category # "Unknown" =>
        /\ duel_result.alternatives =
              SelectSeq(<<"stock", "crypto", "forex">>,
                        LAMBDA k : given[k] # 0 /\ k # the_winner)
        /\ the_winner \notin Range(duel_result.alternatives)
        /\ \A k \in Range(duel_result.alternatives) : given[k] # 0

\* a quote record outweighs both the coin and the currency score of SEK
C22_Witness ==
    /\ duel_done
    /\ call.sym = "SEK"
    /\ stock_wins
    /\ given_crypto > 0
    /\ duel_result.alternatives = <<"crypto", "forex">>

----------------------------------------------------------------------------
(* Shortcut symbols and the cache (checked under SpecCalls) *)

\* C23 as stated: the batch a bulk call hands to get_many contains no symbol
\* of the shortcut table.
C23_AsStated ==
    call.op \in {"classify_bulk", "classify_bulk_async"} =>
        Range(call.get_many_symbols) \cap DOMAIN SHORTCUTS = {}

----------------------------------------------------------------------------
(* The chunk loop of the crypto resolver (checked under SpecCrypto) *)

\* C24: the candidate ids are sent in chunks of 200, the last one shorter; a
\* request is made for every chunk whether or not another one failed, and
\* every entry read from a response that arrived counts in the result,
\* whatever happened to the other chunks.
C24_ChunkIsolation ==
    prices_done =>
        /\ \A c \in DOMAIN call.requested :
              /\ Len(call.requested[c]) \in 1..200
              /\ c < Len(call.requested) => Len(call.requested[c]) = 200
        /\ DOMAIN call.prices = DOMAIN call.requested
        /\ \A p \in places :
              (/\ read(p)
               /\ entry_at(p).cid \in DOMAIN call.id_map
               /\ stated_cap(entry_at(p)) > 0)
              => LET parent == call.id_map[entry_at(p).cid]
                 IN /\ parent \in DOMAIN call.value
                    /\ call.value[parent].market_cap >= stated_cap(entry_at(p))

\* the request for the first chunk of 200 ids fails; the second chunk's
\* response prices b, and b is the result of BTC
C24_Witness ==
    /\ prices_done
    /\ Len(call.requested) = 2
    /\ Len(call.requested[1]) = 200
    /\ ~call.prices[1].ok
    /\ call.prices[2].ok
    /\ "BTC" \in DOMAIN call.value
    /\ call.value["BTC"].id = "b"

----------------------------------------------------------------------------
(* The quote adapter's result map (checked under SpecProviders) *)

\* the types section 4.2 of the specification admits
RECOGNIZED_TYPES == {"EQUITY", "ETF", "INDEX", "MUTUALFUND", "FUTURE"}

\* C25 as stated: every record in the quote adapter's result map has one of
\* the recognized types; a record of another type, or of none, is absent.
C25_AsStated ==
    quotes_done =>
        \A sym \in DOMAIN call.value :
            /\ "quoteType" \in DOMAIN call.value[sym]
            /\ call.value[sym].quoteType \in RECOGNIZED_TYPES

----------------------------------------------------------------------------
(* The three-way split of the working set *)

\* a list that names a symbol with a row, a shortcut symbol and a new symbol,
\* and a list of shortcut symbols only
SPLIT_REQUESTS == {<<<<"n","v","d","a">>, chars("GOLD"), chars("BTC")>>, <<chars("GOLD")>>}

NextSplit ==
    \/ Classify(SPLIT_REQUESTS, STORAGE_WORLDS, {DISK_OK}) \/ BulkReturn
    \/ AsyncStart(SPLIT_REQUESTS, STORAGE_WORLDS, {DISK_OK})
    \/ AsyncQuotes \/ AsyncPrices \/ AsyncResolve \/ AsyncReturn
    \/ Tick

SpecSplit == Init /\ [][NextSplit]_vars

bulk_call == call.op \in {"classify_bulk", "classify_bulk_async"}

\* the rows of the table when the call started
rows_at_start == IF call.op = "classify_bulk" THEN call.rows ELSE call.start.store

shortcut_part == Range(call.unique) \cap DOMAIN SHORTCUTS

\* the symbols outside the shortcut table with a row younger than the window
cache_part ==
    {sym \in Range(call.unique) \ DOMAIN SHORTCUTS :
        sym \in DOMAIN rows_at_start
            /\ rows_at_start[sym].updated_at > call.t - hours_to_expire}

remainder_part == Range(call.to_process)

\* neither provider was approached during the call
providers_idle ==
    IF call.op = "classify_bulk"
    THEN call.quote_requested = None /\ call.price_requested = <<>> /\ ~call.list_requested
    ELSE call.trace = <<>>

\* C26: shortcut hits, fresh cache hits and the remainder are pairwise disjoint
\* and cover the working set; the remainder lists no symbol twice; both
\* providers are called with the remainder list itself, and with nothing when
\* it is empty.
C26_Partition ==
    bulk_call =>
        /\ shortcut_part \cap cache_part = {}
        /\ shortcut_part \cap remainder_part = {}
        /\ cache_part \cap remainder_part = {}
        /\ shortcut_part \cup cache_part \cup remainder_part = Range(call.unique)
        /\ DOMAIN call.cached \ DOMAIN SHORTCUTS = cache_part
        /\ no_repeats(call.to_process)
        /\ IF call.to_process = <<>>
           THEN call.quote_symbols = None /\ call.price_symbols = None /\ providers_idle
           ELSE /\ call.quote_symbols = Some(call.to_process)
                /\ call.price_symbols = Some(call.to_process)

\* nvda, GOLD and BTC are classified while NVDA and GOLD have fresh rows: GOLD
\* is a shortcut hit, NVDA a cache hit, and both providers get BTC alone
C26_Witness ==
    /\ call.op = "classify_bulk"
    /\ shortcut_part = {"GOLD"}
    /\ "GOLD" \in DOMAIN call.cached
    /\ cache_part = {"NVDA"}
    /\ call.to_process = <<"BTC">>
    /\ call.quote_symbols = Some(<<"BTC">>)
    /\ call.price_symbols = Some(<<"BTC">>)
    /\ call.quote_requested = Some(<<"BTC">>)

----------------------------------------------------------------------------
(* The upsert of save_many (checked under SpecCache) *)

save_done == call.op = "save_many"

\* C27: after save_many(items), every item that is not Unknown has one row
\* with the item's fields without source and the time of this write, and a
\* get_many for its symbol right after returns those fields with source
\* cache; every other row is as it was before.
C27_Upsert ==
    save_done =>
        \A sym \in CACHE_SYMBOLS \cup {"GOLD"} :
            IF sym \in DOMAIN call.items /\ call.items[sym].category # "Unknown"
            THEN /\ sym \in DOMAIN store
                 /\ row_dict(sym) = [k \in DOMAIN call.items[sym] \ {"source"} |->
                                        call.items[sym][k]]
                 /\ "source" \notin DOMAIN row_dict(sym)
                 /\ store[sym].updated_at = call.t
                 /\ LET answer == get_many(<<sym>>, store, now)
                    IN /\ DOMAIN answer = {sym}
                       /\ answer[sym].source = "cache"
                       /\ \A k \in DOMAIN call.items[sym] \ {"source"} :
                              answer[sym][k] = call.items[sym][k]
                       /\ DOMAIN answer[sym] = (DOMAIN call.items[sym]) \cup {"source"}
            ELSE /\ sym \in DOMAIN store <=> sym \in DOMAIN call.before
                 /\ sym \in DOMAIN store => store[sym] = call.before[sym]

\* BTC had an older row with other fields and is saved again; NVDA's row is not
\* in items and stays
C27_Witness ==
    /\ save_done
    /\ DOMAIN call.items = {"BTC"}
    /\ call.items["BTC"].category = "crypto"
    /\ call.items["BTC"].source = "cache"
    /\ "BTC" \in DOMAIN call.before
    /\ call.before["BTC"].updated_at < call.t
    /\ call.before["BTC"].data # store["BTC"].data
    /\ store["BTC"].updated_at = call.t
    /\ "NVDA" \in DOMAIN store /\ store["NVDA"] = call.before["NVDA"]

----------------------------------------------------------------------------
(* The order of the steps of classify_bulk_async (checked under SpecAsync) *)

PROVIDER_STEPS == {"credentials", "quote", "quotes_done", "load", "price", "prices_done"}

\* the places of a step in the log of the running call
at(step) == {i \in 1..Len(call.steps) : call.steps[i] = step}

\* C28: in a classify_bulk_async call with a remainder, the cache read is over
\* before either provider fetch starts; both fetches, interleaved or not, are
\* over before the duel; the cache write comes after the duel, and the list is
\* returned after the write.
C28_StepOrder ==
    call.op = "classify_bulk_async" /\ call.to_process # <<>> =>
        /\ at("get_many") = {1}
        /\ \A d \in at("duel") :
              /\ \E i \in at("quotes_done") : i < d
              /\ \E i \in at("prices_done") : i < d
              /\ \A i \in 1..Len(call.steps) :
                    call.steps[i] \in PROVIDER_STEPS => i < d
        /\ \A w \in at("save_many") : \E d \in at("duel") : d < w
        /\ (call.pc = "done" /\ call.outcome = "returned") =>
              /\ at("save_many") = {Len(call.steps)}
              /\ at("duel") = {Len(call.steps) - 1}

\* the two fetches interleaved, the quotes finishing last, then the duel and
\* the write, and BTC returned
C28_Witness ==
    /\ async_done
    /\ call.outcome = "returned"
    /\ call.steps = <<"get_many", "credentials", "load", "price", "prices_done",
                      "quote", "quotes_done", "duel", "save_many">>
    /\ "BTC" \in DOMAIN store

----------------------------------------------------------------------------
(* The index once it is built (checked under SpecLoad) *)

\* a caller has finished its load and the index holds every coin of the listing
index_built ==
    /\ call.op = "load_map"
    /\ \E p \in Callers : call.pc[p] \in {"select", "done"}
    /\ map_loaded(crypto_map)
    /\ same_index(Val(crypto_map), full_index)

index_kept == crypto_map' # None /\ same_index(Val(crypto_map'), Val(crypto_map))

\* C29 as stated: once the index is built with at least one entry, no step of a
\* call on the same client, a concurrently running load that fails included,
\* replaces it, empties it, or adds or removes ids.
C29_AsStated == [][index_built => index_kept]_vars

\* the same for two tasks of one event loop whose requests all succeed
C29_TasksNoFailure ==
    [][(index_built /\ call.mode = "tasks" /\ call'.op = "load_map" /\ ~call'.failed)
          => index_kept]_vars

----------------------------------------------------------------------------
(* Reads and the rows of the table *)

READ_REQUESTS == {<<chars("NVDA")>>, <<chars("GOLD"), <<"n","v","d","a">>>>, <<chars("BTC")>>}

NextRead ==
    GetMany \/ Classify(READ_REQUESTS, STORAGE_WORLDS, {DISK_OK}) \/ Return \/ Tick

SpecRead == Init /\ [][NextRead]_vars

\* the step is a get_many, or a classify_bulk whose symbols are all shortcut
\* or fresh cache hits
reading_step ==
    /\ call = NoCall
    /\ \/ call'.op = "get_many"
       \/ call'.op = "classify_bulk" /\ call'.to_process = <<>>

\* C30: a get_many, and a classify_bulk call that finds every symbol in the
\* shortcut table or fresh in the cache, leave every row of the table as it
\* was, data and timestamp: an expired row stays stored, and a hit does not
\* renew its row.
C30_ReadsKeepRows == [][reading_step => store' = store]_vars

\* at time 3 NVDA is answered from the row written at time 2, which keeps that
\* time, while GOLD's row of time 0, long expired, is still in the table
C30_Witness ==
    /\ call.op = "classify_bulk"
    /\ call.t = 3
    /\ call.to_process = <<>>
    /\ "NVDA" \in DOMAIN call.cached
    /\ store["NVDA"].updated_at = 2
    /\ "GOLD" \in DOMAIN store
    /\ store["GOLD"].updated_at = 0

----------------------------------------------------------------------------
(* The stock score and the reported capitalization (checked under SpecDuel) *)

\* the capitalization the quote record carries, boxed (0 when it carries none)
raw_cap == IF "marketCap" \in DOMAIN the_quote THEN the_quote.marketCap ELSE Some(0)

quote_type == IF "quoteType" \in DOMAIN the_quote THEN the_quote.quoteType ELSE ""

\* C31: the stock score of a quote record is its raw capitalization, except
\* that it is 50,000,000,000 for the type INDEX and 10,000,000,000 for the type
\* FUTURE whatever the raw value (50000 and 10000 in units of 1,000,000); when
\* stock wins, the capitalization in the result is the raw value.
C31_StockScore ==
    (call.op = "process_duel" /\ has_quote) =>
        /\ call.scores.stock = IF quote_type = "INDEX" THEN Some(50000)
                               ELSE IF quote_type = "FUTURE" THEN Some(10000)
                               ELSE raw_cap
        /\ (duel_done /\ stock_wins) => duel_result.market_cap = raw_cap

\* an index whose record carries a null capitalization wins for NVDA by the
\* constant, and the result reports the null
C31_Witness ==
    /\ duel_done
    /\ call.sym = "NVDA"
    /\ has_quote
    /\ quote_type = "INDEX"
    /\ raw_cap = None
    /\ call.scores.stock = Some(50000)
    /\ duel_result.category = "INDEX"
    /\ duel_result.market_cap = None

----------------------------------------------------------------------------
(* Totality of _process_duel (checked under SpecDuel) *)

\* the quote record states a null capitalization and is neither an index nor
\* a future
null_cap == has_quote /\ raw_cap = None /\ quote_type \notin {"INDEX", "FUTURE"}

\* C32 as stated: every call of _process_duel returns without error a mapping
\* whose key set is exactly the remainder, and a record with a null
\* capitalization (type other than INDEX/FUTURE) contributes a stock score of 0.
C32_AsStated ==
    call.op = "process_duel" =>
        /\ ~call.raised
        /\ DOMAIN call.value = {call.sym}
        /\ null_cap => call.scores.stock = Some(0)

----------------------------------------------------------------------------
(* The entries of the crypto result map (checked under SpecCrypto) *)

\* no response states a positive capitalization for the id: it is not listed
\* in any response, or listed without a capitalization, with a null one or
\* with 0
unpriced(cid) ==
    \A p \in places :
        entry_at(p).cid = cid => unreadable(entry_at(p)) \/ stated_cap(entry_at(p)) = 0

\* the duel of a symbol over the result map, for every quote the stock
\* provider may give, keeps crypto out of the winner and the alternatives
crypto_silent(sym) ==
    \A yahoo_data \in DictsOf(sym, QuoteRecords) :
        /\ duel_scores(sym, yahoo_data, call.value).crypto = 0
        /\ ~duel_raises(sym, yahoo_data, call.value) =>
              LET result == resolve(sym, yahoo_data, call.value)
              IN /\ result.category # "crypto"
                 /\ "alternatives" \in DOMAIN result =>
                       "crypto" \notin Range(result.alternatives)

\* C33: every entry of the result map belongs to a requested symbol, has a
\* capitalization above 0 and names one of the ids sent for that symbol; a
\* symbol none of whose candidates is given a positive capitalization is absent
\* from the map, scores 0 for crypto in the duel and has crypto neither as
\* winner nor as alternative.
C33_ResultEntries ==
    prices_done =>
        /\ DOMAIN call.value \subseteq Range(call.symbols)
        /\ \A sym \in DOMAIN call.value :
              /\ call.value[sym].market_cap > 0
              /\ call.value[sym].id \in Range(sent_for(sym))
        /\ \A sym \in Range(call.symbols) :
              (\A cid \in Range(sent_for(sym)) : unpriced(cid)) =>
                  /\ sym \notin DOMAIN call.value
                  /\ crypto_silent(sym)

\* of the candidates a, b, c of BTC the response prices a at 0, lists b without
\* a capitalization and does not list c: BTC has no entry
C33_Witness ==
    /\ prices_done
    /\ call.symbols = <<"BTC">>
    /\ sent_for("BTC") = <<"a", "b", "c">>
    /\ call.prices[1].ok
    /\ Len(call.prices[1].data) = 2
    /\ call.prices[1].data[1] = [cid |-> "a", val |-> Some([usd_market_cap |-> Some(0)])]
    /\ call.prices[1].data[2] = [cid |-> "b", val |-> Some(EmptyDict)]
    /\ "BTC" \notin DOMAIN call.value
    /\ crypto_silent("BTC")

=============================================================================
